---- MODULE Spec2Model ----
(***************************************************************************)
(* PulseFM: the RDS generator (src/src/rds.rs, src/src/rds_strings.rs).    *)
(* The RdsGenerator struct is the record held by the variable gen; every   *)
(* method taking &mut self is an operator from the struct (and the         *)
(* method's arguments) to the struct after the call.                       *)
(***************************************************************************)
EXTENDS Integers, Sequences, FiniteSets, TLC

(***************************************************************************)
(* Program constants (rds.rs:7-19).                                        *)
(***************************************************************************)
RT_LENGTH == 64
PS_LENGTH == 8
GROUP_LENGTH == 4
POLY == 441
POLY_DEG == 10
MSB_BIT == 32768
BLOCK_SIZE == 16
BITS_PER_GROUP == GROUP_LENGTH * (BLOCK_SIZE + POLY_DEG)
SAMPLES_PER_BIT == 192
OFFSET_WORDS == <<252, 408, 360, 436>>
U16 == 2 ^ 16
SPACE == 32

(***************************************************************************)
(* Machine arithmetic on unsigned words of at most 16 bits: ^, &, |,       *)
(* << (u16) and >>.  Xor4[a + 1][b + 1] is a ^ b for two 4-bit digits; the *)
(* other two operators follow from a + b = (a ^ b) + 2 * (a & b) and       *)
(* a | b = (a ^ b) + (a & b).                                              *)
(***************************************************************************)
Xor4 ==
  << <<0, 1, 2, 3, 4, 5, 6, 7, 8, 9, 10, 11, 12, 13, 14, 15>>,
     <<1, 0, 3, 2, 5, 4, 7, 6, 9, 8, 11, 10, 13, 12, 15, 14>>,
     <<2, 3, 0, 1, 6, 7, 4, 5, 10, 11, 8, 9, 14, 15, 12, 13>>,
     <<3, 2, 1, 0, 7, 6, 5, 4, 11, 10, 9, 8, 15, 14, 13, 12>>,
     <<4, 5, 6, 7, 0, 1, 2, 3, 12, 13, 14, 15, 8, 9, 10, 11>>,
     <<5, 4, 7, 6, 1, 0, 3, 2, 13, 12, 15, 14, 9, 8, 11, 10>>,
     <<6, 7, 4, 5, 2, 3, 0, 1, 14, 15, 12, 13, 10, 11, 8, 9>>,
     <<7, 6, 5, 4, 3, 2, 1, 0, 15, 14, 13, 12, 11, 10, 9, 8>>,
     <<8, 9, 10, 11, 12, 13, 14, 15, 0, 1, 2, 3, 4, 5, 6, 7>>,
     <<9, 8, 11, 10, 13, 12, 15, 14, 1, 0, 3, 2, 5, 4, 7, 6>>,
     <<10, 11, 8, 9, 14, 15, 12, 13, 2, 3, 0, 1, 6, 7, 4, 5>>,
     <<11, 10, 9, 8, 15, 14, 13, 12, 3, 2, 1, 0, 7, 6, 5, 4>>,
     <<12, 13, 14, 15, 8, 9, 10, 11, 4, 5, 6, 7, 0, 1, 2, 3>>,
     <<13, 12, 15, 14, 9, 8, 11, 10, 5, 4, 7, 6, 1, 0, 3, 2>>,
     <<14, 15, 12, 13, 10, 11, 8, 9, 6, 7, 4, 5, 2, 3, 0, 1>>,
     <<15, 14, 13, 12, 11, 10, 9, 8, 7, 6, 5, 4, 3, 2, 1, 0>>>>

Bit(x, k) == (x \div (2 ^ k)) % 2

\* (x & mask) != 0 for a mask of one bit
TestBit(x, mask) == (x \div mask) % 2 = 1

Digit(x, k) == ((x \div (16 ^ k)) % 16) + 1

BitXor(a, b) ==
    Xor4[Digit(a, 0)][Digit(b, 0)] + 16 * Xor4[Digit(a, 1)][Digit(b, 1)]
    + 256 * Xor4[Digit(a, 2)][Digit(b, 2)] + 4096 * Xor4[Digit(a, 3)][Digit(b, 3)]

BitAnd(a, b) == (a + b - BitXor(a, b)) \div 2

BitOr(a, b) == (a + b + BitXor(a, b)) \div 2

Shl16(x, k) == (x * (2 ^ k)) % U16

Shr(x, k) == x \div (2 ^ k)

B2N(b) == IF b THEN 1 ELSE 0

Min(a, b) == IF a < b THEN a ELSE b

Max(a, b) == IF a > b THEN a ELSE b

(***************************************************************************)
(* crc (rds.rs:291-305): the accumulator is a u16, shifted left and never  *)
(* masked to POLY_DEG bits.                                                *)
(***************************************************************************)
\* the same step with the feedback taken from the input bit alone
crc_step_nofeedback(acc, block) ==
    LET bit == TestBit(block, MSB_BIT)
        shifted == Shl16(acc, 1)
    IN  IF bit THEN BitXor(shifted, POLY) ELSE shifted

\* rds.rs:295-302: one iteration of the loop of crc
crc_step(acc, block) ==
    LET bit == TestBit(block, MSB_BIT)
        msb == Shr(acc, POLY_DEG - 1) % 2
        shifted == Shl16(acc, 1)
    IN  IF (msb # 0) # bit THEN BitXor(shifted, POLY) ELSE shifted

\* (the guard only makes TLC evaluate one iteration before it starts the next)
RECURSIVE crc_loop(_, _, _)
crc_loop(acc, block, n) ==
    IF n = 0 THEN acc
    ELSE LET acc_next == crc_step(acc, block)
             block_next == Shl16(block, 1)
         IN  IF acc_next >= 0 /\ block_next >= 0
             THEN crc_loop(acc_next, block_next, n - 1)
             ELSE 0

crc(block) == crc_loop(0, block, BLOCK_SIZE)

(***************************************************************************)
(* The bit-serialisation loop of get_rds_group (rds.rs:425-439): per block *)
(* 16 info bits MSB first, then POLY_DEG bits of crc(block) ^ OFFSET_WORDS *)
(* taken from bit POLY_DEG-1 downwards of the u16 check word.              *)
(***************************************************************************)
block_bits(block, i) ==
    LET check == BitXor(crc(block), OFFSET_WORDS[i])
    IN  [k \in 1..BLOCK_SIZE |->
            IF TestBit(Shl16(block, k - 1), 2 ^ (BLOCK_SIZE - 1)) THEN 1 ELSE 0]
        \o
        [k \in 1..POLY_DEG |->
            IF TestBit(Shl16(check, k - 1), 2 ^ (POLY_DEG - 1)) THEN 1 ELSE 0]

encode_group(blocks) ==
    block_bits(blocks[1], 1) \o block_bits(blocks[2], 2)
        \o block_bits(blocks[3], 3) \o block_bits(blocks[4], 4)

(***************************************************************************)
(* Character map and fill_rds_string (rds_strings.rs).  Strings are        *)
(* sequences of Unicode code points.  The shipped table                    *)
(* assets/rds_unicode_map.txt is restricted to the code points of          *)
(* Alphabet: space, 'A', 'B' and e-acute are mapped, U+4E2D is not.        *)
(***************************************************************************)
Alphabet == <<32, 65, 20013, 66, 233>>

RDS_MAP == (32 :> 32) @@ (65 :> 65) @@ (66 :> 66) @@ (233 :> 130)

map_get(cp) == IF cp \in DOMAIN RDS_MAP THEN RDS_MAP[cp] ELSE SPACE

\* first loop of fill_rds_string: one byte per character while room is left
RECURSIVE fill_copy(_, _, _)
fill_copy(target, input, out_index) ==
    IF out_index >= Len(input) \/ out_index >= Len(target)
    THEN [target |-> target, out_index |-> out_index]
    ELSE fill_copy([target EXCEPT ![out_index + 1] = map_get(input[out_index + 1])],
                   input, out_index + 1)

\* the padding loop left out: the tail of the old content survives
fill_pad_missing(target, out_index) == target

\* second loop of fill_rds_string: pad with 0x20
RECURSIVE fill_pad(_, _)
fill_pad(target, out_index) ==
    IF out_index >= Len(target) THEN target
    ELSE fill_pad([target EXCEPT ![out_index + 1] = SPACE], out_index + 1)

fill_rds_string(target, input) ==
    LET c == fill_copy(target, input, 0)
    IN  fill_pad(c.target, c.out_index)

(***************************************************************************)
(* RdsParams::default (rds.rs:37-55) and RdsGenerator::new (rds.rs:98-141).*)
(* The biphase filter table (assets/waveform_biphase.txt) is not among the *)
(* sources, so the sample accumulator ring, its two indices and the sample *)
(* values are left out; every other field of the struct is present.        *)
(***************************************************************************)
NoText == [some |-> FALSE, text |-> <<>>]

RdsParams_default ==
    [pi |-> 0, tp |-> FALSE, ta |-> FALSE, pty |-> 0, ms |-> TRUE, di |-> 8,
     ab |-> FALSE, ab_auto |-> TRUE, ct_enabled |-> TRUE, af_stream |-> <<>>,
     ps |-> [k \in 1..PS_LENGTH |-> SPACE],
     rt |-> [k \in 1..RT_LENGTH |-> SPACE]]

RdsGenerator_new ==
    [params |-> RdsParams_default,
     state |-> 0, ps_state |-> 0, rt_state |-> 0, latest_minutes |-> -1,
     bit_buffer |-> [k \in 1..BITS_PER_GROUP |-> 0],
     bit_pos |-> BITS_PER_GROUP,
     prev_output |-> 0, cur_output |-> 0, cur_bit |-> 0,
     sample_count |-> SAMPLES_PER_BIT, inverting |-> FALSE, phase |-> 0,
     af_pos |-> 0,
     ps_scroll |-> NoText, rt_scroll |-> NoText,
     ps_scroll_pos |-> 0, rt_scroll_pos |-> 0,
     ps_scroll_interval_samples |-> 228000 \div 2,
     rt_scroll_interval_samples |-> 228000 \div 2,
     sample_ticks |-> 0,
     group_cycle |-> <<0, 0, 0, 0, 2>>, group_index |-> 0,
     ct_interval_groups |-> 0, ct_counter |-> 0,
     ps_alt_list |-> <<>>, ps_alt_index |-> 0,
     ps_alt_interval |-> 0, ps_alt_counter |-> 0]

(***************************************************************************)
(* Setters (rds.rs:143-229).                                               *)
(***************************************************************************)
\* set_pi starting a new group at once
set_pi_restart(g, pi_code) ==
    [g EXCEPT !.params.pi = pi_code, !.bit_pos = BITS_PER_GROUP]

set_pi(g, pi_code) == [g EXCEPT !.params.pi = pi_code]

set_tp(g, tp) == [g EXCEPT !.params.tp = tp]

\* the A/B flag toggled on every call, whether or not the text changed
set_rt_always_toggle(g, next) ==
    [g EXCEPT !.params.ab = IF g.params.ab_auto THEN ~@ ELSE @,
              !.params.rt = next]

\* rds.rs:154-159, next being the buffer filled from the new text
set_rt_to(g, next) ==
    IF next # g.params.rt
    THEN [g EXCEPT !.params.ab = IF g.params.ab_auto THEN ~@ ELSE @,
                   !.params.rt = next]
    ELSE g

set_rt(g, rt) == set_rt_to(g, fill_rds_string([k \in 1..RT_LENGTH |-> 0], rt))

set_rt_ab(g, ab) == [g EXCEPT !.params.ab = ab]

set_rt_ab_auto(g, ab_auto) == [g EXCEPT !.params.ab_auto = ab_auto]

set_pty(g, pty) == [g EXCEPT !.params.pty = Min(pty, 31)]

set_ms(g, ms) == [g EXCEPT !.params.ms = ms]

set_di(g, di) == [g EXCEPT !.params.di = BitAnd(di, 15)]

set_ct_enabled(g, enabled) == [g EXCEPT !.params.ct_enabled = enabled]

set_ps(g, ps) == [g EXCEPT !.params.ps = fill_rds_string(g.params.ps, ps)]

set_ta(g, ta) == [g EXCEPT !.params.ta = ta]

Repeat(x, n) == [k \in 1..n |-> x]

\* the cycle built from the counts as given, without the floor of one entry
set_group_mix_nofloor(g, count_0a, count_2a, count_4a) ==
    [g EXCEPT !.group_cycle = Repeat(0, count_0a) \o Repeat(2, count_2a)
                                  \o Repeat(4, count_4a),
              !.group_index = 0]

\* rds.rs:208-217
set_group_mix(g, count_0a, count_2a, count_4a) ==
    LET cycle == Repeat(0, Max(count_0a, 1)) \o Repeat(2, Max(count_2a, 1))
                 \o (IF count_4a > 0 THEN Repeat(4, count_4a) ELSE <<>>)
    IN  [g EXCEPT !.group_cycle = cycle, !.group_index = 0]

set_ct_interval_groups(g, interval) ==
    [g EXCEPT !.ct_interval_groups = interval, !.ct_counter = 0]

set_ps_alternates(g, list, interval_groups) ==
    [g EXCEPT !.ps_alt_list = list, !.ps_alt_interval = interval_groups,
              !.ps_alt_index = 0, !.ps_alt_counter = 0]

(***************************************************************************)
(* IEEE-754 binary32 arithmetic as used by set_af_list_mhz.  A finite f32  *)
(* is [nan |-> FALSE, m |-> v * 2^17] (2^-17 is the spacing of f32 values  *)
(* in [64, 128)); NaN is [nan |-> TRUE, m |-> 0].  A decimal frequency is  *)
(* given in units of 10 kHz, so 98.04 MHz is 9804.                         *)
(***************************************************************************)
F32_SCALE == 2 ^ 17

F32_NAN == [nan |-> TRUE, m |-> 0]

\* a / b rounded to the nearest integer, ties to even (a >= 0, b > 0)
RneDiv(a, b) ==
    LET q == a \div b
        r == a % b
    IN  IF 2 * r < b THEN q
        ELSE IF 2 * r > b THEN q + 1
        ELSE q + (q % 2)

\* str::parse::<f32> of the decimal c / 100, for 64.00 <= c / 100 < 256.00
f32_parse(c) ==
    IF c < 12800
    THEN [nan |-> FALSE, m |-> RneDiv(c * 32768, 25)]
    ELSE [nan |-> FALSE, m |-> 2 * RneDiv(c * 16384, 25)]

\* a non-negative scaled integer rounded to 24 significant bits
RECURSIVE F32Round(_, _)
F32Round(x, e) ==
    IF x < (2 ^ 24) * (2 ^ e) THEN (2 ^ e) * RneDiv(x, 2 ^ e)
    ELSE F32Round(x, e + 1)

f32_lt(a, b) == ~a.nan /\ ~b.nan /\ a.m < b.m

f32_gt(a, b) == ~a.nan /\ ~b.nan /\ a.m > b.m

\* a - b for a >= b
f32_sub(a, b) ==
    IF a.nan \/ b.nan THEN F32_NAN
    ELSE [nan |-> FALSE, m |-> F32Round(a.m - b.m, 0)]

\* a * 10.0 for a >= 0
f32_mul10(a) ==
    IF a.nan THEN F32_NAN
    ELSE [nan |-> FALSE, m |-> F32Round(a.m * 10, 0)]

\* f32::round (half away from zero) followed by `as i32` (NaN becomes 0)
f32_round_as_i32(a) ==
    IF a.nan THEN 0 ELSE (a.m + F32_SCALE \div 2) \div F32_SCALE

F32_87_6 == f32_parse(8760)

F32_107_9 == f32_parse(10790)

(***************************************************************************)
(* set_af_list_mhz (rds.rs:231-261).                                       *)
(***************************************************************************)
\* the range test with both limits excluded
af_out_of_range_strict(mhz) == ~f32_gt(mhz, F32_87_6) \/ ~f32_lt(mhz, F32_107_9)

\* rds.rs:234
af_out_of_range(mhz) == f32_lt(mhz, F32_87_6) \/ f32_gt(mhz, F32_107_9)

\* the channel code computed without the + 1
af_code_zero_based(mhz) == f32_round_as_i32(f32_mul10(f32_sub(mhz, F32_87_6)))

\* rds.rs:237
af_code(mhz) == f32_round_as_i32(f32_mul10(f32_sub(mhz, F32_87_6))) + 1

\* rds.rs:233-241: the codes pushed, in input order
RECURSIVE af_collect(_, _, _)
af_collect(freqs, i, codes) ==
    IF i > Len(freqs) THEN codes
    ELSE LET mhz == freqs[i]
         IN  IF af_out_of_range(mhz) THEN af_collect(freqs, i + 1, codes)
             ELSE LET code == af_code(mhz)
                  IN  IF code >= 1 /\ code <= 204
                      THEN af_collect(freqs, i + 1, Append(codes, code % 256))
                      ELSE af_collect(freqs, i + 1, codes)

\* Vec::sort on u8
RECURSIVE sort_insert(_, _)
sort_insert(sorted, x) ==
    IF sorted = <<>> THEN <<x>>
    ELSE IF x < Head(sorted) THEN <<x>> \o sorted
    ELSE <<Head(sorted)>> \o sort_insert(Tail(sorted), x)

RECURSIVE vec_sort(_)
vec_sort(v) == IF v = <<>> THEN <<>> ELSE sort_insert(vec_sort(Tail(v)), Head(v))

\* Vec::dedup left out
vec_dedup_missing(v) == v

\* Vec::dedup: consecutive repeated elements removed
RECURSIVE vec_dedup(_)
vec_dedup(v) ==
    IF Len(v) < 2 THEN v
    ELSE IF v[1] = v[2] THEN vec_dedup(Tail(v))
    ELSE <<v[1]>> \o vec_dedup(Tail(v))

\* the stream built without the trailing pad byte
af_stream_of_nopad(codes) ==
    LET count == Min(Len(codes), 25)
    IN  <<(224 + count) % 256>> \o SubSeq(codes, 1, count)

\* rds.rs:252-258
af_stream_of(codes) ==
    LET count == Min(Len(codes), 25)
        stream == <<(224 + count) % 256>> \o SubSeq(codes, 1, count)
    IN  IF Len(stream) % 2 # 0 THEN Append(stream, 0) ELSE stream

\* the empty-list branch leaving the position where it was
af_clear_keep_pos(g) == [g EXCEPT !.params.af_stream = <<>>]

\* rds.rs:246-250
af_clear(g) == [g EXCEPT !.params.af_stream = <<>>, !.af_pos = 0]

\* rds.rs:246-260
set_af_codes(g, codes) ==
    IF codes = <<>> THEN af_clear(g)
    ELSE [g EXCEPT !.params.af_stream = af_stream_of(codes), !.af_pos = 0]

set_af_list_mhz(g, freqs) ==
    set_af_codes(g, vec_dedup(vec_sort(af_collect(freqs, 1, <<>>))))

(***************************************************************************)
(* The wall clock read by chrono::Utc::now() and chrono::Local::now():     *)
(* [mjd, hour, minute] of the UTC time and the local offset in seconds.    *)
(***************************************************************************)
\* i32 division truncating towards zero
TruncDiv(a, b) == IF a < 0 THEN -((-a) \div b) ELSE a \div b

Abs(a) == IF a < 0 THEN -a ELSE a

\* fill_rds_ct_group (rds.rs:307-331)
fill_rds_ct_group(g, blocks, clk) ==
    LET base == BitOr(BitOr(Shl16(4, 12), Shl16(B2N(g.params.tp), 10)),
                      Shl16(g.params.pty, 5))
        b1 == BitOr(base, Shr(clk.mjd, 15) % U16)
        b2 == BitOr((clk.mjd * 2) % U16, Shr(clk.hour, 4))
        b3 == BitOr(Shl16(BitAnd(clk.hour, 15), 12), Shl16(clk.minute, 6))
        offset == TruncDiv(clk.offset, 30 * 60)
    IN  <<blocks[1], b1, b2,
          BitOr(BitOr(b3, Abs(offset) % U16), IF offset < 0 THEN 32 ELSE 0)>>

\* the minute-triggered clock-time group sent without recording the minute
get_rds_ct_group_forget(g, blocks, clk) ==
    IF ~g.params.ct_enabled \/ clk.minute = g.latest_minutes
    THEN [gen |-> g, blocks |-> blocks, sent |-> FALSE]
    ELSE [gen |-> g, blocks |-> fill_rds_ct_group(g, blocks, clk), sent |-> TRUE]

\* the minute-triggered clock-time group sent although CT is switched off
get_rds_ct_group_ignore_enable(g, blocks, clk) ==
    IF clk.minute = g.latest_minutes
    THEN [gen |-> g, blocks |-> blocks, sent |-> FALSE]
    ELSE [gen |-> [g EXCEPT !.latest_minutes = clk.minute],
          blocks |-> fill_rds_ct_group(g, blocks, clk), sent |-> TRUE]

\* get_rds_ct_group (rds.rs:333-344)
get_rds_ct_group(g, blocks, clk) ==
    IF ~g.params.ct_enabled
    THEN [gen |-> g, blocks |-> blocks, sent |-> FALSE]
    ELSE IF clk.minute = g.latest_minutes
    THEN [gen |-> g, blocks |-> blocks, sent |-> FALSE]
    ELSE [gen |-> [g EXCEPT !.latest_minutes = clk.minute],
          blocks |-> fill_rds_ct_group(g, blocks, clk), sent |-> TRUE]

(***************************************************************************)
(* get_rds_group (rds.rs:346-440), in the order of the code.               *)
(***************************************************************************)
\* the alternate name taken at the index before it advances
ps_alt_step_first(g) ==
    IF g.ps_alt_interval > 0 /\ g.ps_alt_list # <<>>
    THEN LET counter == g.ps_alt_counter + 1
         IN  IF counter >= g.ps_alt_interval
             THEN LET index == (g.ps_alt_index + 1) % Len(g.ps_alt_list)
                  IN  set_ps([g EXCEPT !.ps_alt_counter = 0, !.ps_alt_index = index],
                             g.ps_alt_list[g.ps_alt_index + 1])
             ELSE [g EXCEPT !.ps_alt_counter = counter]
    ELSE g

\* rds.rs:349-357: the alternate PS names
ps_alt_step(g) ==
    IF g.ps_alt_interval > 0 /\ g.ps_alt_list # <<>>
    THEN LET counter == g.ps_alt_counter + 1
         IN  IF counter >= g.ps_alt_interval
             THEN LET index == (g.ps_alt_index + 1) % Len(g.ps_alt_list)
                  IN  set_ps([g EXCEPT !.ps_alt_counter = 0, !.ps_alt_index = index],
                             g.ps_alt_list[index + 1])
             ELSE [g EXCEPT !.ps_alt_counter = counter]
    ELSE g

\* the periodic clock-time group sent one group late (> for >=)
ct_interval_step_late(g, blocks, clk) ==
    IF g.ct_interval_groups > 0
    THEN LET counter == g.ct_counter + 1
         IN  IF counter > g.ct_interval_groups
             THEN [gen |-> [g EXCEPT !.ct_counter = 0],
                   blocks |-> fill_rds_ct_group(g, blocks, clk), sent |-> TRUE]
             ELSE [gen |-> [g EXCEPT !.ct_counter = counter],
                   blocks |-> blocks, sent |-> FALSE]
    ELSE [gen |-> g, blocks |-> blocks, sent |-> FALSE]

\* rds.rs:359-367: the periodic clock-time group
ct_interval_step(g, blocks, clk) ==
    IF g.ct_interval_groups > 0
    THEN LET counter == g.ct_counter + 1
         IN  IF counter >= g.ct_interval_groups
             THEN [gen |-> [g EXCEPT !.ct_counter = 0],
                   blocks |-> fill_rds_ct_group(g, blocks, clk), sent |-> TRUE]
             ELSE [gen |-> [g EXCEPT !.ct_counter = counter],
                   blocks |-> blocks, sent |-> FALSE]
    ELSE [gen |-> g, blocks |-> blocks, sent |-> FALSE]

\* the group cycle advanced by two entries for one group
select_group_type_skip(g) ==
    IF g.group_cycle = <<>>
    THEN [gen |-> g, group_type |-> 0]
    ELSE [gen |-> [g EXCEPT !.group_index = (g.group_index + 2) % Len(g.group_cycle)],
          group_type |-> g.group_cycle[(g.group_index % Len(g.group_cycle)) + 1]]

\* rds.rs:370-376: the entry of the group cycle
select_group_type(g) ==
    IF g.group_cycle = <<>>
    THEN [gen |-> g, group_type |-> 0]
    ELSE [gen |-> [g EXCEPT !.group_index = (g.group_index + 1) % Len(g.group_cycle)],
          group_type |-> g.group_cycle[(g.group_index % Len(g.group_cycle)) + 1]]

\* a 0A group after which the AF position advances by one byte
fill_0a_af_step_one(g, blocks) ==
    LET p == g.params
        di_bit == BitAnd(Shr(p.di, 3 - g.ps_state), 1)
        b1 == BitOr(BitOr(BitOr(BitOr(BitOr(BitOr(Shl16(0, 12),
                    Shl16(B2N(p.tp), 10)), Shl16(p.pty, 5)), Shl16(B2N(p.ta), 4)),
                    Shl16(B2N(p.ms), 3)), Shl16(di_bit, 2)), g.ps_state)
        n == Len(p.af_stream)
        b2 == IF n = 0 THEN 52685
              ELSE BitOr(Shl16(p.af_stream[(g.af_pos % n) + 1], 8),
                         p.af_stream[((g.af_pos + 1) % n) + 1])
        af_pos == IF n = 0 THEN g.af_pos ELSE (g.af_pos + 1) % n
        q == g.ps_state * 2
        b3 == BitOr(Shl16(p.ps[q + 1], 8), p.ps[q + 2])
        ps_state == IF g.ps_state + 1 >= 4 THEN 0 ELSE g.ps_state + 1
    IN  [gen |-> [g EXCEPT !.af_pos = af_pos, !.ps_state = ps_state],
         blocks |-> <<blocks[1], b1, b2, b3>>]

\* rds.rs:379-400: a 0A group
fill_0a(g, blocks) ==
    LET p == g.params
        di_bit == BitAnd(Shr(p.di, 3 - g.ps_state), 1)
        b1 == BitOr(BitOr(BitOr(BitOr(BitOr(BitOr(Shl16(0, 12),
                    Shl16(B2N(p.tp), 10)), Shl16(p.pty, 5)), Shl16(B2N(p.ta), 4)),
                    Shl16(B2N(p.ms), 3)), Shl16(di_bit, 2)), g.ps_state)
        n == Len(p.af_stream)
        b2 == IF n = 0 THEN 52685
              ELSE BitOr(Shl16(p.af_stream[(g.af_pos % n) + 1], 8),
                         p.af_stream[((g.af_pos + 1) % n) + 1])
        af_pos == IF n = 0 THEN g.af_pos ELSE (g.af_pos + 2) % n
        q == g.ps_state * 2
        b3 == BitOr(Shl16(p.ps[q + 1], 8), p.ps[q + 2])
        ps_state == IF g.ps_state + 1 >= 4 THEN 0 ELSE g.ps_state + 1
    IN  [gen |-> [g EXCEPT !.af_pos = af_pos, !.ps_state = ps_state],
         blocks |-> <<blocks[1], b1, b2, b3>>]

\* a 2A group after which the segment address wraps one segment early
fill_2a_wrap_early(g, blocks) ==
    LET p == g.params
        b1 == BitOr(BitOr(BitOr(BitOr(Shl16(2, 12), Shl16(B2N(p.tp), 10)),
                    Shl16(p.pty, 5)), Shl16(B2N(p.ab), 4)), g.rt_state)
        q == g.rt_state * 4
        b2 == BitOr(Shl16(p.rt[q + 1], 8), p.rt[q + 2])
        b3 == BitOr(Shl16(p.rt[q + 3], 8), p.rt[q + 4])
        rt_state == IF g.rt_state + 1 >= 15 THEN 0 ELSE g.rt_state + 1
    IN  [gen |-> [g EXCEPT !.rt_state = rt_state],
         blocks |-> <<blocks[1], b1, b2, b3>>]

\* a 2A group whose A/B bit follows the segment address instead of params.ab
fill_2a_ab_from_segment(g, blocks) ==
    LET p == g.params
        b1 == BitOr(BitOr(BitOr(BitOr(Shl16(2, 12), Shl16(B2N(p.tp), 10)),
                    Shl16(p.pty, 5)), Shl16(BitAnd(g.rt_state, 1), 4)), g.rt_state)
        q == g.rt_state * 4
        b2 == BitOr(Shl16(p.rt[q + 1], 8), p.rt[q + 2])
        b3 == BitOr(Shl16(p.rt[q + 3], 8), p.rt[q + 4])
        rt_state == IF g.rt_state + 1 >= 16 THEN 0 ELSE g.rt_state + 1
    IN  [gen |-> [g EXCEPT !.rt_state = rt_state],
         blocks |-> <<blocks[1], b1, b2, b3>>]

\* rds.rs:402-414: a 2A group
fill_2a(g, blocks) ==
    LET p == g.params
        b1 == BitOr(BitOr(BitOr(BitOr(Shl16(2, 12), Shl16(B2N(p.tp), 10)),
                    Shl16(p.pty, 5)), Shl16(B2N(p.ab), 4)), g.rt_state)
        q == g.rt_state * 4
        b2 == BitOr(Shl16(p.rt[q + 1], 8), p.rt[q + 2])
        b3 == BitOr(Shl16(p.rt[q + 3], 8), p.rt[q + 4])
        rt_state == IF g.rt_state + 1 >= 16 THEN 0 ELSE g.rt_state + 1
    IN  [gen |-> [g EXCEPT !.rt_state = rt_state],
         blocks |-> <<blocks[1], b1, b2, b3>>]

\* rds.rs:419-422
advance_state(g) == [g EXCEPT !.state = IF g.state + 1 >= 5 THEN 0 ELSE g.state + 1]

\* rds.rs:378-418: the blocks of the selected entry sel = [gen, group_type]
fill_selected(sel, blocks, clk) ==
    IF sel.group_type = 0 /\ sel.gen.state < 4 THEN fill_0a(sel.gen, blocks)
    ELSE IF sel.group_type = 2 THEN fill_2a(sel.gen, blocks)
    ELSE IF sel.group_type = 4
         THEN [gen |-> sel.gen, blocks |-> fill_rds_ct_group(sel.gen, blocks, clk)]
    ELSE [gen |-> sel.gen, blocks |-> blocks]

\* rds.rs:419-423 after the group filled
finish_group(filled) ==
    [gen |-> advance_state(filled.gen), blocks |-> filled.blocks]

\* rds.rs:369-423, given the outcome ct of get_rds_ct_group
after_ct_group(ct, blocks, clk) ==
    IF ct.sent THEN [gen |-> ct.gen, blocks |-> ct.blocks]
    ELSE finish_group(fill_selected(select_group_type(ct.gen), blocks, clk))

\* rds.rs:369-423: the group chosen when no periodic clock-time group was sent
scheduled_group(g, blocks, clk) ==
    after_ct_group(get_rds_ct_group(g, blocks, clk), blocks, clk)

\* rds.rs:359-423, given the outcome per of the periodic clock-time step
after_ct_interval(per, blocks, clk) ==
    IF per.sent THEN [gen |-> per.gen, blocks |-> per.blocks]
    ELSE scheduled_group(per.gen, blocks, clk)

\* rds.rs:347: let mut blocks = [self.params.pi, 0, 0, 0]
first_blocks(g) == <<g.params.pi, 0, 0, 0>>

\* rds.rs:425-439 applied to the blocks chosen
with_bits(res) ==
    [gen |-> res.gen, blocks |-> res.blocks, buffer |-> encode_group(res.blocks)]

\* get_rds_group: the struct after the call, the blocks and the 104 bits written
get_rds_group(g, clk) ==
    with_bits(after_ct_interval(ct_interval_step(ps_alt_step(g), first_blocks(g), clk),
                                first_blocks(g), clk))

(***************************************************************************)
(* get_rds_samples (rds.rs:442-528).  get_rds_sample is one iteration of   *)
(* the loop over the caller's buffer; besides the struct it reports, in    *)
(* order, the call of get_rds_group it made (with the value of bit_pos     *)
(* that triggered it) and the index of the bit it consumed, if any.        *)
(***************************************************************************)
\* str::as_bytes of one code point (UTF-8, code points below 0x10000)
utf8(cp) ==
    IF cp < 128 THEN <<cp>>
    ELSE IF cp < 2048 THEN <<192 + (cp \div 64), 128 + (cp % 64)>>
    ELSE <<224 + (cp \div 4096), 128 + ((cp \div 64) % 64), 128 + (cp % 64)>>

RECURSIVE as_bytes(_)
as_bytes(text) == IF text = <<>> THEN <<>> ELSE utf8(Head(text)) \o as_bytes(Tail(text))

\* rds.rs:450-455 and 462-467: the window cut from the padded scroll text
scroll_window(text, pos, length) ==
    LET padded == as_bytes(text \o <<32, 32, 32>>)
    IN  [i \in 1..length |-> padded[((pos + i - 1) % Len(padded)) + 1]]

scroll_len(text) == Len(as_bytes(text \o <<32, 32, 32>>))

\* rds.rs:448-459
ps_scroll_step(g) ==
    IF g.ps_scroll.some /\ g.sample_ticks % g.ps_scroll_interval_samples = 0
    THEN set_ps([g EXCEPT !.ps_scroll_pos = (@ + 1) % scroll_len(g.ps_scroll.text)],
                scroll_window(g.ps_scroll.text, g.ps_scroll_pos, PS_LENGTH))
    ELSE g

\* rds.rs:460-471
rt_scroll_step(g) ==
    IF g.rt_scroll.some /\ g.sample_ticks % g.rt_scroll_interval_samples = 0
    THEN set_rt([g EXCEPT !.rt_scroll_pos = (@ + 1) % scroll_len(g.rt_scroll.text)],
                scroll_window(g.rt_scroll.text, g.rt_scroll_pos, RT_LENGTH))
    ELSE g

\* the bit clock restarted one sample late
bit_due_late(g) == g.sample_count > SAMPLES_PER_BIT

\* rds.rs:472
bit_due(g) == g.sample_count >= SAMPLES_PER_BIT

\* a new group fetched one bit before the buffer is drained
group_due_early(g) == g.bit_pos >= BITS_PER_GROUP - 1

\* rds.rs:473
group_due(g) == g.bit_pos >= BITS_PER_GROUP

\* what an observer of the wire sees of a group: its type nibble, or "0A" only
\* if block D carries the two PS bytes of the segment addressed in block B
group_kind(blocks, g) ==
    LET nib == Shr(blocks[2], 12)
        seg == BitAnd(blocks[2], 3)
    IN  IF nib = 4 THEN "4A"
        ELSE IF nib = 2 THEN "2A"
        ELSE IF nib = 0 /\ blocks[4] = BitOr(Shl16(g.params.ps[2 * seg + 1], 8),
                                             g.params.ps[2 * seg + 2])
        THEN "0A"
        ELSE "none"

group_event(pos, blocks, g) ==
    [ev |-> "group", pos |-> pos, blocks |-> blocks, kind |-> group_kind(blocks, g)]

bit_event(pos) == [ev |-> "bit", pos |-> pos, blocks |-> <<>>, kind |-> "bit"]

\* rds.rs:474-477: the group grp returned by get_rds_group becomes the bit buffer
load_group(g, grp) ==
    [gen |-> [grp.gen EXCEPT !.bit_buffer = grp.buffer, !.bit_pos = 0],
     events |-> <<group_event(g.bit_pos, grp.blocks, grp.gen)>>]

\* rds.rs:473-478
fetch_group(g, clk) ==
    IF group_due(g) THEN load_group(g, get_rds_group(g, clk))
    ELSE [gen |-> g, events |-> <<>>]

\* rds.rs:480-505: the bit at bit_pos through the differential encoder
take_bit(f) ==
    LET cur_bit == f.gen.bit_buffer[f.gen.bit_pos + 1]
        cur_output == BitXor(f.gen.cur_output, cur_bit)
    IN  [gen |-> [f.gen EXCEPT !.cur_bit = cur_bit,
                               !.prev_output = f.gen.cur_output,
                               !.cur_output = cur_output,
                               !.inverting = (cur_output = 1),
                               !.bit_pos = @ + 1,
                               !.sample_count = 0],
         events |-> f.events \o <<bit_event(f.gen.bit_pos)>>]

\* rds.rs:472-505: the next bit, preceded by a new group when the buffer is drained
next_bit(g, clk) == take_bit(fetch_group(g, clk))

\* rds.rs:472-505
bit_branch(g, clk) ==
    IF bit_due(g) THEN next_bit(g, clk) ELSE [gen |-> g, events |-> <<>>]

\* rds.rs:447
tick(g) == [g EXCEPT !.sample_ticks = @ + 1]

\* rds.rs:520-526
end_of_sample(nb) ==
    [gen |-> [nb.gen EXCEPT !.phase = IF @ + 1 >= 4 THEN 0 ELSE @ + 1,
                            !.sample_count = @ + 1],
     events |-> nb.events]

get_rds_sample(g, clk) ==
    end_of_sample(bit_branch(rt_scroll_step(ps_scroll_step(tick(g))), clk))

\* the result r of one more iteration appended to the result so far
sample_join(acc, r) == [gen |-> r.gen, events |-> acc.events \o r.events]

sample_after(acc, clk) == sample_join(acc, get_rds_sample(acc.gen, clk))

\* the loop over the buffer: n iterations of the body, composed by halves so
\* that the nesting of the evaluation grows with log n; the guard on the tick
\* counter only makes TLC finish the first half before it starts the second
RECURSIVE samples_loop(_, _, _)
samples_loop(acc, clk, n) ==
    IF n = 0 THEN acc
    ELSE IF n = 1 THEN sample_after(acc, clk)
    ELSE LET half == samples_loop(acc, clk, n \div 2)
         IN  IF half.gen.sample_ticks > 0
             THEN samples_loop(half, clk, n - (n \div 2))
             ELSE half

\* the bit clock restarted at the start of every call
get_rds_samples_restart(g, clk, n) ==
    samples_loop([gen |-> [g EXCEPT !.sample_count = 0], events |-> <<>>], clk, n)

\* get_rds_samples(buffer) with buffer.len() = n
get_rds_samples(g, clk, n) == samples_loop([gen |-> g, events |-> <<>>], clk, n)

\* the 104 bits of the group grp drained, each through the differential
\* encoder (rds.rs:480-482)
drain_group(g, grp) ==
    LET cur_bit == grp.buffer[BITS_PER_GROUP]
        cur_output ==
            (g.cur_output
                + Cardinality({k \in 1..BITS_PER_GROUP : grp.buffer[k] = 1})) % 2
    IN  [gen |-> [grp.gen EXCEPT !.bit_buffer = grp.buffer,
                                 !.bit_pos = BITS_PER_GROUP,
                                 !.cur_bit = cur_bit,
                                 !.prev_output = (cur_output + cur_bit) % 2,
                                 !.cur_output = cur_output,
                                 !.inverting = (cur_output = 1),
                                 !.sample_count = SAMPLES_PER_BIT,
                                 !.sample_ticks = @ + BITS_PER_GROUP * SAMPLES_PER_BIT],
         events |-> <<group_event(g.bit_pos, grp.blocks, grp.gen)>>]

\* get_rds_samples called at a group boundary, scrolling off, with a buffer of
\* one group period (BITS_PER_GROUP * SAMPLES_PER_BIT samples): get_rds_group
\* is called once, on the first sample
group_period(g, clk) == drain_group(g, get_rds_group(g, clk))

(***************************************************************************)
(* The live engine (audio_io.rs).  Sample values are not computed: a       *)
(* sample is named by the tick of LiveMpx::next_sample that composed it    *)
(* (1, 2, ...), 0 being the literal 0.0; a captured frame is named by its   *)
(* rank among the frames captured (1, 2, ...), the silent frame being 0.   *)
(* Gains and thresholds are in hundredths.  The FIR delay lines, the       *)
(* pre-emphasis and compressor states and the level fields of LiveMpx hold *)
(* sample values or scale them and are left out.                           *)
(***************************************************************************)
INTERNAL_SAMPLE_RATE == 228000
OUTPUT_SAMPLE_RATE == 192000
FIR_HALF_SIZE == 30
FIR_SIZE == 2 * FIR_HALF_SIZE - 1
CARRIER_38_LEN == 6
CARRIER_19_LEN == 12
LOOKAHEAD_MIN == 1
LOOKAHEAD_MAX == 2048

SILENT_FRAME == [left |-> 0, right |-> 0]

F32_ZERO == [nan |-> FALSE, m |-> 0]

F32_ONE == [nan |-> FALSE, m |-> F32_SCALE]

f32_ge(a, b) == ~a.nan /\ ~b.nan /\ a.m >= b.m

\* a + b for a, b >= 0
f32_add(a, b) ==
    IF a.nan \/ b.nan THEN F32_NAN
    ELSE [nan |-> FALSE, m |-> F32Round(a.m + b.m, 0)]

\* floor(r * 2^k / b) and its remainder for 0 <= r < b, one bit at a time
RECURSIVE ScaledDiv(_, _, _)
ScaledDiv(r, b, k) ==
    IF k = 0 THEN [q |-> 0, r |-> r]
    ELSE LET d == ScaledDiv(r, b, k - 1)
         IN  [q |-> 2 * d.q + (2 * d.r) \div b, r |-> (2 * d.r) % b]

\* a as f32 / b as f32 for integers 0 <= a, 0 < b below 2^24 (which `as f32`
\* keeps exact), exact where the quotient is a multiple of 2^-17, as
\* 228000 / 192000 = 19 / 16 is
f32_div(a, b) ==
    LET d == ScaledDiv(a % b, b, 17)
        up == IF 2 * d.r > b \/ (2 * d.r = b /\ d.q % 2 = 1) THEN 1 ELSE 0
    IN  [nan |-> FALSE, m |-> F32Round((a \div b) * F32_SCALE + d.q + up, 0)]

\* OutputResampler::new (audio_io.rs:61-69)
OutputResampler_new(internal_rate, output_rate) ==
    [phase |-> F32_ZERO,
     step |-> f32_div(internal_rate, output_rate),
     prev |-> 0, next |-> 0, has_next |-> FALSE]

\* the loop test with > for >=: a phase of exactly 1.0 is not reduced
resampler_needs_fetch_strict(r) == ~r.has_next \/ f32_gt(r.phase, F32_ONE)

\* audio_io.rs:75 and 80: next_sample is about to call fetch
resampler_needs_fetch(r) == ~r.has_next \/ f32_ge(r.phase, F32_ONE)

\* audio_io.rs:75-84: the value v returned by fetch is stored, by the priming
\* branch or by one iteration of the loop
resampler_fetched(r, v) ==
    IF ~r.has_next THEN [r EXCEPT !.next = v, !.has_next = TRUE]
    ELSE [r EXCEPT !.phase = f32_sub(@, F32_ONE), !.prev = r.next, !.next = v]

\* the phase advanced by 1.0 for the step
resampler_emit_unit(r) ==
    [resampler |-> [r EXCEPT !.phase = f32_add(@, F32_ONE)],
     t |-> r.phase,
     sample |-> [prev |-> r.prev, next |-> r.next, t |-> r.phase]]

\* audio_io.rs:86-89: the interpolated sample, named by its two source
\* samples and the weight t, and the phase advanced by the step
resampler_emit(r) ==
    [resampler |-> [r EXCEPT !.phase = f32_add(@, r.step)],
     t |-> r.phase,
     sample |-> [prev |-> r.prev, next |-> r.next, t |-> r.phase]]

\* LiveMpx::new (audio_io.rs:147-178)
LiveMpx_new ==
    [fir_index |-> 0, phase_38 |-> 0, phase_19 |-> 0,
     gain |-> 100,
     limiter_enabled |-> TRUE, limiter_threshold |-> 95,
     limiter_lookahead |-> 256, limiter_buffer |-> <<>>]

\* audio_io.rs:249-251
set_gain(m, gain) == [m EXCEPT !.gain = gain]

\* audio_io.rs:253-256
set_limiter(m, enabled, threshold) ==
    [m EXCEPT !.limiter_enabled = enabled, !.limiter_threshold = threshold]

\* the look-ahead changed without clearing the FIFO
set_limiter_lookahead_keep(m, samples) ==
    [m EXCEPT !.limiter_lookahead = Min(Max(samples, LOOKAHEAD_MIN), LOOKAHEAD_MAX)]

\* audio_io.rs:258-261
set_limiter_lookahead(m, samples) ==
    [m EXCEPT !.limiter_lookahead = Min(Max(samples, LOOKAHEAD_MIN), LOOKAHEAD_MAX),
              !.limiter_buffer = <<>>]

\* the limiter returning the sample just pushed
limiter_newest(m, out) ==
    IF m.limiter_enabled
    THEN LET pushed == Append(m.limiter_buffer, out)
         IN  IF Len(pushed) < m.limiter_lookahead
             THEN [mpx |-> [m EXCEPT !.limiter_buffer = pushed], out |-> 0]
             ELSE IF Len(pushed) > m.limiter_lookahead
             THEN [mpx |-> [m EXCEPT !.limiter_buffer = Tail(pushed)],
                   out |-> pushed[Len(pushed)]]
             ELSE [mpx |-> [m EXCEPT !.limiter_buffer = pushed],
                   out |-> pushed[Len(pushed)]]
    ELSE [mpx |-> m, out |-> out]

\* audio_io.rs:378-400: the limiter, fed the sample out
limiter(m, out) ==
    IF m.limiter_enabled
    THEN LET pushed == Append(m.limiter_buffer, out)
         IN  IF Len(pushed) < m.limiter_lookahead
             THEN [mpx |-> [m EXCEPT !.limiter_buffer = pushed], out |-> 0]
             ELSE IF Len(pushed) > m.limiter_lookahead
             THEN [mpx |-> [m EXCEPT !.limiter_buffer = Tail(pushed)],
                   out |-> pushed[2]]
             ELSE [mpx |-> [m EXCEPT !.limiter_buffer = pushed], out |-> pushed[1]]
    ELSE [mpx |-> m, out |-> out]

\* audio_io.rs:302-305 and 366-374: the FIR index and the carrier phases
mpx_advance(m) ==
    [m EXCEPT !.fir_index = IF @ + 1 >= FIR_SIZE THEN 0 ELSE @ + 1,
              !.phase_19 = IF @ + 1 >= CARRIER_19_LEN THEN 0 ELSE @ + 1,
              !.phase_38 = IF @ + 1 >= CARRIER_38_LEN THEN 0 ELSE @ + 1]

\* LiveMpx::next_sample (audio_io.rs:292-401), rds being the outcome of
\* self.rds.get_rds_samples on a one-sample slice
LiveMpx_next_sample(m, rds) ==
    [gen |-> rds.gen, events |-> rds.events,
     lim |-> limiter(mpx_advance(m), rds.gen.sample_ticks)]

\* RdsGenerator::enable_ps_scroll (rds.rs:263-275), chars_per_sec a whole
\* number
enable_ps_scroll(g, enabled, text, chars_per_sec) ==
    IF ~enabled THEN [g EXCEPT !.ps_scroll = NoText]
    ELSE [g EXCEPT !.ps_scroll = [some |-> TRUE, text |-> text],
                   !.ps_scroll_pos = 0,
                   !.ps_scroll_interval_samples =
                       Max(228000 \div Max(chars_per_sec, 1), 1)]

\* RdsGenerator::enable_rt_scroll (rds.rs:277-289), chars_per_sec a whole
\* number
enable_rt_scroll(g, enabled, text, chars_per_sec) ==
    IF ~enabled THEN [g EXCEPT !.rt_scroll = NoText]
    ELSE [g EXCEPT !.rt_scroll = [some |-> TRUE, text |-> text],
                   !.rt_scroll_pos = 0,
                   !.rt_scroll_interval_samples =
                       Max(228000 \div Max(chars_per_sec, 1), 1)]

\* audio_io.rs:622-635: the RDS part of the configuration, in the order of
\* the calls
configure_rds(g, c) ==
    enable_rt_scroll(enable_ps_scroll(set_af_list_mhz(set_ct_enabled(
        set_rt_ab_auto(set_rt_ab(set_di(set_ms(set_pty(set_ta(set_tp(set_pi(
            set_rt(set_ps(g, c.ps), c.rt), c.pi), c.tp), c.ta), c.pty), c.ms),
            c.di), c.ab), c.ab_auto), c.ct_enabled), c.af_list_mhz),
        c.ps_scroll_enabled, c.ps_scroll_text, c.ps_scroll_cps),
        c.rt_scroll_enabled, c.rt_scroll_text, c.rt_scroll_cps)

\* audio_io.rs:636-638: the gain and the limiter of the configuration
configure_mpx(m, c) ==
    set_limiter_lookahead(
        set_limiter(set_gain(m, c.output_gain), c.limiter_enabled,
                    c.limiter_threshold),
        c.limiter_lookahead)

\* audio_io.rs:650-652: the group scheduling of the configuration
configure_groups(g, c) ==
    set_ps_alternates(
        set_ct_interval_groups(
            set_group_mix(g, c.group_0a, c.group_2a, c.group_4a),
            c.ct_interval_groups),
        c.ps_alt_list, c.ps_alt_interval)

\* HeapRb::<Frame>::new(OUTPUT_SAMPLE_RATE as usize * 2) (audio_io.rs:583),
\* scaled to MaxRing frames
MaxRing == 2

\* a push that overwrites the oldest frame of a full ring
ring_push_overwrite(r, frame) ==
    IF Len(r) >= MaxRing THEN [ok |-> FALSE, ring |-> Append(Tail(r), frame)]
    ELSE [ok |-> TRUE, ring |-> Append(r, frame)]

\* prod.push(frame) (audio_io.rs:600)
ring_push(r, frame) ==
    IF Len(r) >= MaxRing THEN [ok |-> FALSE, ring |-> r]
    ELSE [ok |-> TRUE, ring |-> Append(r, frame)]

\* a pop that takes the newest frame
ring_pop_newest(r) ==
    IF r = <<>> THEN [some |-> FALSE, frame |-> SILENT_FRAME, ring |-> r]
    ELSE [some |-> TRUE, frame |-> r[Len(r)], ring |-> SubSeq(r, 1, Len(r) - 1)]

\* cons.pop() (audio_io.rs:691)
ring_pop(r) ==
    IF r = <<>> THEN [some |-> FALSE, frame |-> SILENT_FRAME, ring |-> r]
    ELSE [some |-> TRUE, frame |-> Head(r), ring |-> Tail(r)]

\* a u32 as its two 16-bit halves, and the u32 of a number below 2^31
u32(n) == [hi |-> n \div U16, lo |-> n % U16]

\* AtomicU32::fetch_add(n), which wraps around, for n < 2^16
fetch_add(x, n) ==
    [hi |-> (x.hi + (x.lo + n) \div U16) % U16, lo |-> (x.lo + n) % U16]

\* u32::saturating_add(1) and u32::saturating_sub(1)
saturating_add(x) ==
    IF x.lo < U16 - 1 THEN [x EXCEPT !.lo = @ + 1]
    ELSE IF x.hi < U16 - 1 THEN [hi |-> x.hi + 1, lo |-> 0]
    ELSE x

saturating_sub(x) ==
    IF x.lo > 0 THEN [x EXCEPT !.lo = @ - 1]
    ELSE IF x.hi > 0 THEN [hi |-> x.hi - 1, lo |-> U16 - 1]
    ELSE x

\* an underrun that is not counted
underrun_uncounted(a) == a

\* audio_io.rs:697: the ring was empty
underrun(a) == [a EXCEPT !.xrun_count = fetch_add(@, 1)]

\* audio_io.rs:601: the ring was full
overrun(a) == [a EXCEPT !.xrun_count = fetch_add(@, 1)]

\* the output callback running without waiting for the mutex
output_enters_unlocked(l) == TRUE

\* shared_for_output.lock() (audio_io.rs:685) returns when the mutex is free
output_may_enter(l) == l.shared = {}

\* a setter running without waiting for the mutex
controller_enters_unlocked(l) == TRUE

\* self.shared.lock() (audio_io.rs:842 and the other setters) returns when
\* the mutex is free
controller_may_enter(l) == l.shared = {}

\* the body of AudioEngine::update_* (audio_io.rs:841-989) for the call c,
\* its arguments a tuple, on the LiveMpx m with rds g
apply_call(m, g, c) ==
    IF c.name = "update_gain" THEN [mpx |-> set_gain(m, c.arg[1]), gen |-> g]
    ELSE IF c.name = "update_limiter"
    THEN [mpx |-> set_limiter(m, c.arg[1], c.arg[2]), gen |-> g]
    ELSE IF c.name = "update_limiter_lookahead"
    THEN [mpx |-> set_limiter_lookahead(m, c.arg[1]), gen |-> g]
    ELSE IF c.name = "update_pi" THEN [mpx |-> m, gen |-> set_pi(g, c.arg[1])]
    ELSE [mpx |-> m, gen |-> g]

\* the parameters that only setters change, as a tick reads them
Params(m, g) ==
    [gain |-> m.gain, limiter_enabled |-> m.limiter_enabled,
     limiter_threshold |-> m.limiter_threshold,
     limiter_lookahead |-> m.limiter_lookahead, pi |-> g.params.pi]


(***************************************************************************)
(* generate_mpx_wav (wav_writer.rs:55-131).  Here an f32 is kept exactly,  *)
(* as sign, integer significand m <= 2^24 and binary exponent e (the value *)
(* is m * 2^e); sample values are not computed.                            *)
(***************************************************************************)
MPX_SAMPLE_RATE == 228000
CHUNK_SIZE == 2048

RECURSIVE BitLen(_)
BitLen(n) == IF n = 0 THEN 0 ELSE 1 + BitLen(n \div 2)

\* q + r / d rounded to the nearest integer, ties to even
Rne(q, r, d) == IF 2 * r > d \/ (2 * r = d /\ q % 2 = 1) THEN q + 1 ELSE q

\* m * c as hi * 2^12 + lo, for m <= 2^24 and c < 2^13
wide_mul(m, c) ==
    [hi |-> (m \div 4096) * c + ((m % 4096) * c) \div 4096,
     lo |-> ((m % 4096) * c) % 4096]

\* hi * 2^12 + lo rounded to 24 significant bits, s being the bits dropped
wide_round_by(w, s) ==
    IF s = 0 THEN [m |-> w.hi * 4096 + w.lo, e |-> 0]
    ELSE IF s <= 12
    THEN [m |-> Rne(w.hi * 2 ^ (12 - s) + w.lo \div 2 ^ s, w.lo % 2 ^ s, 2 ^ s),
          e |-> s]
    ELSE [m |-> Rne(w.hi \div 2 ^ (s - 12),
                    (w.hi % 2 ^ (s - 12)) * 4096 + w.lo, 2 ^ s),
          e |-> s]

wide_round(w) ==
    wide_round_by(w, Max((IF w.hi = 0 THEN BitLen(w.lo) ELSE BitLen(w.hi) + 12) - 24, 0))

\* config.duration_secs * MPX_SAMPLE_RATE as f32 (wav_writer.rs:94), 228000
\* being 7125 * 2^5
float_mul_rate(d) ==
    [neg |-> d.neg,
     m |-> wide_round(wide_mul(d.m, MPX_SAMPLE_RATE \div 32)).m,
     e |-> wide_round(wide_mul(d.m, MPX_SAMPLE_RATE \div 32)).e + 5 + d.e]

\* `as usize` of an f32: truncation toward zero, 0 for a negative value
float_as_usize(x) ==
    IF x.neg \/ x.m = 0 THEN 0
    ELSE IF x.e >= 0 THEN x.m * 2 ^ x.e
    ELSE IF -x.e > 24 THEN 0
    ELSE x.m \div 2 ^ (-x.e)

\* floor((hi * 2^12 + lo) / 2^k)
wide_floor(w, k) ==
    IF k <= 0 THEN (w.hi * 4096 + w.lo) * 2 ^ (-k)
    ELSE IF k <= 12 THEN w.hi * 2 ^ (12 - k) + w.lo \div 2 ^ k
    ELSE IF k - 12 > 30 THEN 0
    ELSE w.hi \div 2 ^ (k - 12)

\* the total that truncates the product without rounding it to f32 first
total_samples_unrounded(d) ==
    IF d.neg THEN 0
    ELSE wide_floor(wide_mul(d.m, MPX_SAMPLE_RATE \div 32), -(5 + d.e))

\* wav_writer.rs:94
total_samples(d) == float_as_usize(float_mul_rate(d))

\* g doubled until it reaches t, and the number of doublings
RECURSIVE ShiftTo(_, _, _)
ShiftTo(g, t, k) == IF g >= t THEN [g |-> g, k |-> k] ELSE ShiftTo(2 * g, t, k + 1)

\* the f32 quotient of the integers 0 < g <= t < 2^24, s being ShiftTo(g, t, 0)
float_quot_of(s, t) ==
    [neg |-> FALSE,
     m |-> 2 ^ 23 + Rne(ScaledDiv(s.g - t, t, 23).q, ScaledDiv(s.g - t, t, 23).r, t),
     e |-> -23 - s.k]

\* generated as f32 / total_samples as f32 (wav_writer.rs:127), `as f32`
\* rounding to 24 significant bits
float_quot(g, t) == float_quot_of(ShiftTo(F32Round(g, 0), F32Round(t, 0), 0), F32Round(t, 0))

\* the significand of a quotient brought below 2^24
float_norm(a) == IF a.m = 2 ^ 24 THEN [a EXCEPT !.m = 2 ^ 23, !.e = @ + 1] ELSE a

\* a < b for positive quotients
float_lt(a, b) ==
    \/ float_norm(a).e < float_norm(b).e
    \/ float_norm(a).e = float_norm(b).e /\ float_norm(a).m < float_norm(b).m

FLOAT_ZERO == [neg |-> FALSE, m |-> 0, e |-> 0]

FLOAT_ONE == [neg |-> FALSE, m |-> 2 ^ 23, e |-> -23]

\* wav_writer.rs:66-92: the RDS setters in the order of the calls
configure_wav(g, c) ==
    set_ps_alternates(set_ct_interval_groups(set_group_mix(
        enable_rt_scroll(enable_ps_scroll(set_af_list_mhz(set_ct_enabled(
            set_rt_ab_auto(set_rt_ab(set_di(set_ms(set_pty(set_ta(set_tp(
                set_rt(set_ps(set_pi(g, c.pi), c.ps), c.rt),
                c.tp), c.ta), c.pty), c.ms), c.di), c.ab), c.ab_auto),
            c.ct_enabled), c.af_list_mhz),
            c.ps_scroll_enabled, c.ps_scroll_text, c.ps_scroll_cps),
            c.rt_scroll_enabled, c.rt_scroll_text, c.rt_scroll_cps),
        c.group_0a, c.group_2a, c.group_4a), c.ct_interval_groups),
        c.ps_alt_list, c.ps_alt_interval)

\* the writer before generate_mpx_wav is called.  duration: the argument;
\* total, generated, len: the locals total_samples, generated and len; i:
\* the samples of the chunk written; written: the calls of write_sample;
\* calls: the calls of progress; fraction, prev: the arguments of the last
\* call and of the one before; increasing: every call so far had a larger
\* argument than the one before; longest: the longest chunk
Wav0 ==
    [pc |-> "start", duration |-> FLOAT_ZERO, total |-> 0, generated |-> 0,
     len |-> 0, i |-> 0, written |-> 0, calls |-> 0, fraction |-> FLOAT_ZERO,
     prev |-> FLOAT_ZERO, increasing |-> TRUE, longest |-> 0]

(***************************************************************************)
(* State.  gen is the RdsGenerator; clock is the wall clock it reads; op   *)
(* names the last call made on it, with its argument and the part of the   *)
(* parameters it was about as they were before the call; obs is what an    *)
(* observer has recorded of the calls of get_rds_group and of the bits     *)
(* consumed; word is a 16-bit input chosen at start-up for the programme   *)
(* identification; wav is the state of generate_mpx_wav; twin is a second  *)
(* RdsGenerator with its own wall clock; rx is what a receiver has         *)
(* collected of the RadioText.                                             *)
(***************************************************************************)
VARIABLES gen, clock, op, obs, word,
          resampler, mpx, ring, atomics, locks, threads, seen, wav, twin, rx

\* the live engine: the output resampler owned by the output callback; the
\* LiveMpx behind the mutex `shared`, whose rds field is gen; the ring of
\* captured frames; the atomics xrun_count and buffer_fill; the holders of
\* the mutexes; the position of each thread (main is start_engine, output and
\* capture the stream callbacks, controller the caller of AudioEngine::
\* update_*); seen is what an observer has recorded of the engine
audio == <<resampler, mpx, ring, atomics, locks, threads, seen>>

vars == <<gen, clock, op, obs, word, audio, wav, twin, rx>>

Threads0 ==
    [main |-> [pc |-> "start", input |-> FALSE],
     output |-> [pc |-> "idle", index |-> 0, len |-> 0, frame |-> SILENT_FRAME,
                 prev |-> u32(0)],
     capture |-> [pc |-> "idle", i |-> 0, n |-> 0, prev |-> u32(0)],
     controller |-> [pc |-> "idle", call |-> [name |-> "none", arg |-> <<>>]]]

\* calls: calls of OutputResampler::next_sample completed; pops: calls of
\* cons.pop(); ticks: calls of the fetch closure completed; underruns: pops
\* that found the ring empty; captured: frames handed to the capture
\* callback; overruns: pushes that found the ring full; params: the
\* setter-controlled parameters seen by the ticks of
\* the output callback in progress; entries: the times the output callback
\* in progress has acquired the mutex `shared`; issued, applied: the
\* controller's calls in the order issued and in the order applied;
\* unguarded: LiveMpx was accessed by a thread not holding the mutex;
\* pushed: the frames the ring accepted, in order; pulled: the frames the
\* fetch closure got from cons.pop(), the silent frame for None, in order;
\* fed: the frames passed to LiveMpx::next_sample, in order
Seen0 ==
    [calls |-> 0, pops |-> 0, ticks |-> 0, underruns |-> 0, captured |-> 0,
     overruns |-> 0, params |-> {}, entries |-> 0, issued |-> <<>>,
     applied |-> <<>>, unguarded |-> FALSE,
     pushed |-> <<>>, pulled |-> <<>>, fed |-> <<>>]

AudioInit ==
    /\ resampler = OutputResampler_new(INTERNAL_SAMPLE_RATE, OUTPUT_SAMPLE_RATE)
    /\ mpx = LiveMpx_new
    /\ ring = <<>>
    /\ atomics = [xrun_count |-> u32(0), buffer_fill |-> u32(0)]
    /\ locks = [shared |-> {}, scope |-> {}]
    /\ threads = Threads0
    /\ seen = Seen0

\* bounds of the model
MaxTicks == 20200
MaxBuf == 3

\* "25 consecutive groups": five rounds of the five-entry group cycle
KindWindow == 5 * 5

Clock0 == [mjd |-> 61345, hour |-> 23, minute |-> 58, offset |-> -12600]

\* kinds: the kinds of the last KindWindow groups emitted since the last
\* configuration call, recorded while armed (the group mix is the one under
\* observation); ab_seen, ab_count: the A/B bits seen in 2A groups since the
\* last call that changes the text, the flag or the auto-toggle, and their
\* number; consumed: the indices of the bits taken from the current group;
\* call_pos: the values of bit_pos at which get_rds_group was called; last:
\* the blocks of the last group
Obs0 ==
    [kinds |-> <<>>, armed |-> FALSE, n_groups |-> 0, n_bits |-> 0,
     consumed |-> <<>>, call_pos |-> {}, ab_seen |-> {}, ab_count |-> 0,
     last |-> <<>>]

LastN(s, n) == IF Len(s) <= n THEN s ELSE SubSeq(s, Len(s) - n + 1, Len(s))

Observe(o, e) ==
    IF e.ev = "group"
    THEN [o EXCEPT !.kinds = IF o.armed THEN LastN(Append(@, e.kind), KindWindow)
                             ELSE @,
                   !.n_groups = @ + 1,
                   !.consumed = <<>>,
                   !.call_pos = @ \cup {e.pos},
                   !.ab_seen = IF e.kind = "2A"
                               THEN @ \cup {BitAnd(Shr(e.blocks[2], 4), 1)} ELSE @,
                   !.ab_count = IF e.kind = "2A" THEN @ + 1 ELSE @,
                   !.last = e.blocks]
    ELSE [o EXCEPT !.n_bits = @ + 1, !.consumed = Append(@, e.pos)]

RECURSIVE ObserveAll(_, _)
ObserveAll(o, events) ==
    IF events = <<>> THEN o ELSE ObserveAll(Observe(o, Head(events)), Tail(events))

\* the observer after a whole group period
ObservePeriod(o, events) ==
    [ObserveAll(o, events) EXCEPT !.n_bits = @ + BITS_PER_GROUP,
                                  !.consumed = [k \in 1..BITS_PER_GROUP |-> k - 1]]

NoCall == [name |-> "new", arg |-> <<>>, before |-> <<>>]

\* segments: address and four bytes of each 2A group received since the RT
\* buffer last changed, the last 16 at most; last_addr: the address of the
\* last 2A group received, -1 before the first; sets: the setter calls made
Rx0 == [segments |-> <<>>, last_addr |-> -1, sets |-> 0]

\* the second generator, as constructed; its wall clock is a minute ahead of
\* the first one's.  bits and first_bits are the bits the second and the
\* first generator have emitted, calls and first_calls the calls of
\* get_rds_samples made on each, sets the setter calls made on both;
\* ct_free tells that no sample was generated so far with the clock-time
\* group enabled, a periodic interval set or a 4A entry in the cycle
Twin0 ==
    [gen |-> RdsGenerator_new, clock |-> [Clock0 EXCEPT !.minute = 59],
     bits |-> <<>>, first_bits |-> <<>>, calls |-> 0, first_calls |-> 0,
     sets |-> 0, ct_free |-> TRUE]

Init ==
    /\ gen = RdsGenerator_new
    /\ clock = Clock0
    /\ op = NoCall
    /\ obs = Obs0
    /\ word = 0
    /\ AudioInit
    /\ wav = Wav0
    /\ twin = Twin0
    /\ rx = Rx0

(***************************************************************************)
(* The sample clock: calls of get_rds_samples with buffers of 1 sample     *)
(* (the live engine, audio_io.rs:294), of MaxBuf samples and of more than  *)
(* one bit period.                                                         *)
(***************************************************************************)
BufSizes == {1, MaxBuf, SAMPLES_PER_BIT + MaxBuf}

GetRdsSamples(n) ==
    /\ gen.sample_ticks + n <= MaxTicks
    /\ \E r \in {get_rds_samples(gen, clock, n)} :
          /\ gen' = r.gen
          /\ obs' = ObserveAll(obs, r.events)
    /\ op' = [name |-> "get_rds_samples", arg |-> n, before |-> <<>>]
    /\ UNCHANGED <<clock, word, audio, wav, twin, rx>>

NextSamples == \E n \in BufSizes : GetRdsSamples(n)

SpecSamples == Init /\ [][NextSamples]_vars

\* C2: a new bit is fetched exactly every 192 samples and get_rds_group is
\* called exactly every 104 bits, hence once per 19968 samples, the first
\* call on the very first sample: after t samples ceil(t / 192) bits have
\* been fetched and ceil(bits / 104) groups generated.
C2_BitAndGroupClock ==
    /\ obs.n_bits = (gen.sample_ticks + SAMPLES_PER_BIT - 1) \div SAMPLES_PER_BIT
    /\ obs.n_groups = (obs.n_bits + BITS_PER_GROUP - 1) \div BITS_PER_GROUP
    /\ obs.n_groups =
         (gen.sample_ticks + SAMPLES_PER_BIT * BITS_PER_GROUP - 1)
             \div (SAMPLES_PER_BIT * BITS_PER_GROUP)

C2_Witness ==
    /\ gen.sample_ticks = SAMPLES_PER_BIT * BITS_PER_GROUP + 1
    /\ obs.n_groups = 2
    /\ obs.n_bits = BITS_PER_GROUP + 1

\* C3: the bits of a group are consumed in index order 0, 1, ..., 103, each
\* once; get_rds_group is called only when bit_pos is 104; bit_pos stays in
\* 0..104.
C3_BitsInOrder ==
    /\ gen.bit_pos \in 0..BITS_PER_GROUP
    /\ obs.call_pos \subseteq {BITS_PER_GROUP}
    /\ obs.n_groups > 0 => obs.consumed = [k \in 1..gen.bit_pos |-> k - 1]

C3_Witness ==
    /\ obs.n_groups = 2
    /\ obs.call_pos = {BITS_PER_GROUP}
    /\ gen.bit_pos = 2
    /\ obs.consumed = <<0, 1>>

(***************************************************************************)
(* Group level: get_rds_samples called with whole group periods, as the    *)
(* offline composer does with whole buffers (fm_mpx.rs:232).               *)
(***************************************************************************)
EmitGroup(max) ==
    /\ obs.n_groups < max
    /\ bit_due(gen) /\ group_due(gen)
    /\ ~gen.ps_scroll.some /\ ~gen.rt_scroll.some
    /\ \E r \in {group_period(gen, clock)} :
          /\ gen' = r.gen
          /\ obs' = ObservePeriod(obs, r.events)
    /\ op' = [name |-> "get_rds_samples",
              arg |-> BITS_PER_GROUP * SAMPLES_PER_BIT, before |-> <<>>]
    /\ UNCHANGED <<clock, word, audio, wav, twin, rx>>

(***************************************************************************)
(* Check words.  The programme identification, block A of every group, is  *)
(* any 16-bit word.                                                        *)
(***************************************************************************)
MaxCrcGroups == 1

InitCrc ==
    /\ gen = RdsGenerator_new
    /\ clock = Clock0
    /\ op = NoCall
    /\ obs = Obs0
    /\ word \in 0..(U16 - 1)
    /\ AudioInit
    /\ wav = Wav0
    /\ twin = Twin0
    /\ rx = Rx0

\* set_pi with the chosen word (once: a second call would change nothing)
SetPi ==
    /\ gen.params.pi # word
    /\ gen' = set_pi(gen, word)
    /\ op' = [name |-> "set_pi", arg |-> word, before |-> gen.params.pi]
    /\ UNCHANGED <<clock, obs, word, audio, wav, twin, rx>>

\* the groups of the station once its identification is set
EmitIdentified ==
    /\ gen.params.pi = word
    /\ EmitGroup(MaxCrcGroups)

NextCrc == SetPi \/ EmitIdentified

SpecCrc == InitCrc /\ [][NextCrc]_vars

\* the remainders of x^10, x^11, ..., x^25 divided by
\* x^10 + x^8 + x^7 + x^5 + x^4 + x^3 + 1: x^10 leaves POLY, and x * r leaves
\* r shifted, with POLY added (mod 2) in place of an x^10 term
RECURSIVE XPowRemFrom(_)
XPowRemFrom(t) ==
    IF Len(t) = BLOCK_SIZE THEN t
    ELSE LET r == t[Len(t)]
             next == IF r >= 2 ^ (POLY_DEG - 1)
                     THEN BitXor(2 * r - 2 ^ POLY_DEG, POLY) ELSE 2 * r
         IN  IF next >= 0 THEN XPowRemFrom(Append(t, next)) ELSE t

XPowRem == XPowRemFrom(<<POLY>>)

\* the remainder of info * x^10: the sum (mod 2) of the remainders of the
\* powers of x present in it
RECURSIVE PolyRemFrom(_, _, _)
PolyRemFrom(info, k, acc) ==
    IF k = BLOCK_SIZE THEN acc
    ELSE LET next == IF Bit(info, k) = 1 THEN BitXor(acc, XPowRem[k + 1]) ELSE acc
         IN  IF next >= 0 THEN PolyRemFrom(info, k + 1, next) ELSE acc

PolyRem(info) == PolyRemFrom(info, 0, 0)

\* the number written MSB first in bits[from + 1 .. from + n]
RECURSIVE BitsValueFrom(_, _, _, _)
BitsValueFrom(bits, from, n, acc) ==
    IF n = 0 THEN acc
    ELSE LET next == 2 * acc + bits[from + 1]
         IN  IF next >= 0 THEN BitsValueFrom(bits, from + 1, n - 1, next) ELSE acc

InfoOnWire(i) ==
    BitsValueFrom(gen.bit_buffer, (i - 1) * (BLOCK_SIZE + POLY_DEG), BLOCK_SIZE, 0)

CheckOnWire(i) ==
    BitsValueFrom(gen.bit_buffer, (i - 1) * (BLOCK_SIZE + POLY_DEG) + BLOCK_SIZE,
                  POLY_DEG, 0)

\* C1: in every group produced by get_rds_group each block i carries its 16
\* info bits followed by 10 check bits equal to the low 10 bits of
\* (remainder of info * x^10 by the generator polynomial) XOR OFFSET_WORDS[i],
\* for every 16-bit info word.
C1_CheckBits ==
    obs.n_groups > 0 =>
        \A i \in 1..GROUP_LENGTH :
            /\ InfoOnWire(i) = obs.last[i]
            /\ CheckOnWire(i) =
                 BitXor(PolyRem(obs.last[i]), OFFSET_WORDS[i]) % (2 ^ POLY_DEG)

\* a group whose block A is 0xFFFF and whose check accumulator overflowed
\* ten bits while it was computed
C1_Witness ==
    /\ obs.n_groups = MaxCrcGroups
    /\ obs.last[1] = U16 - 1
    /\ InfoOnWire(1) = U16 - 1
    /\ crc(obs.last[1]) >= 2 ^ POLY_DEG

(***************************************************************************)
(* Texts.  TextOf(n, k) is a string of n characters over Alphabet: with    *)
(* k = 1 it starts "A", U+4E2D, "B", e-acute, " ", with k = 2 it starts    *)
(* U+4E2D, e-acute, "A", "B", " ".  The lengths run from the empty string  *)
(* to MaxOver characters more than the buffer holds.                       *)
(***************************************************************************)
MaxOver == 1
MaxShort == 2

Strides == {1, 2}

TextOf(n, k) == [i \in 1..n |-> Alphabet[((i * k) % Len(Alphabet)) + 1]]

PsTexts == {TextOf(n, k) : n \in 0..(PS_LENGTH + MaxOver), k \in Strides}

RtTexts ==
    {TextOf(n, k) :
        n \in (0..MaxShort) \cup ((RT_LENGTH - 1)..(RT_LENGTH + MaxOver)),
        k \in Strides}

SetPs(s) ==
    /\ gen' = set_ps(gen, s)
    /\ op' = [name |-> "set_ps", arg |-> s, before |-> gen.params.ps]
    /\ UNCHANGED <<clock, obs, word, audio, wav, twin, rx>>

\* set_rt; the observer forgets the A/B bits seen when the text changes
SetRt(s) ==
    /\ \E g \in {set_rt(gen, s)} :
          /\ gen' = g
          /\ obs' = IF g.params.rt # gen.params.rt
                    THEN [obs EXCEPT !.ab_seen = {}, !.ab_count = 0] ELSE obs
    /\ op' = [name |-> "set_rt", arg |-> s,
              before |-> [rt |-> gen.params.rt, ab |-> gen.params.ab]]
    /\ UNCHANGED <<clock, word, audio, wav, twin, rx>>

SetRtAbAuto(b) ==
    /\ gen' = set_rt_ab_auto(gen, b)
    /\ obs' = [obs EXCEPT !.ab_seen = {}, !.ab_count = 0]
    /\ op' = [name |-> "set_rt_ab_auto", arg |-> b, before |-> gen.params.ab_auto]
    /\ UNCHANGED <<clock, word, audio, wav, twin, rx>>

NextText ==
    \/ \E s \in PsTexts : SetPs(s)
    \/ \E s \in RtTexts : SetRt(s)
    \/ \E b \in BOOLEAN : SetRtAbAuto(b)

SpecText == Init /\ [][NextText]_vars

\* the buffer of n bytes the documentation describes for the text s: the
\* mapped code of each character while there is room, then spaces
MappedPadded(s, n) ==
    [k \in 1..n |-> IF k <= Len(s) THEN map_get(s[k]) ELSE SPACE]

\* C4: with auto-toggle on, set_rt(s) flips ab (once, and stores the new
\* buffer) if the 64-byte mapped, space-padded form of s differs from the RT
\* buffer, and leaves ab and the RT buffer as they were if it is equal.
C4_AbFlipsIffTextDiffers ==
    (op.name = "set_rt" /\ gen.params.ab_auto) =>
        IF MappedPadded(op.arg, RT_LENGTH) # op.before.rt
        THEN /\ gen.params.ab = ~op.before.ab
             /\ gen.params.rt = MappedPadded(op.arg, RT_LENGTH)
        ELSE /\ gen.params.ab = op.before.ab
             /\ gen.params.rt = op.before.rt

\* a second call with a text of the same mapped form, after a first call that
\* flipped the flag
C4_Witness ==
    /\ op.name = "set_rt"
    /\ gen.params.ab_auto
    /\ op.arg = TextOf(2, 1)
    /\ MappedPadded(op.arg, RT_LENGTH) = op.before.rt
    /\ op.before.ab
    /\ gen.params.ab

\* C6: after set_ps(s) (set_rt(s)) all 8 (64) bytes are written: the mapped
\* code of the k-th character (0x20 if it is not in the map) for
\* k <= min(len(s), buffer length), 0x20 in every remaining position, so that
\* nothing of the previous content survives.
C6_BufferFullyWritten ==
    /\ op.name = "set_ps" => gen.params.ps = MappedPadded(op.arg, PS_LENGTH)
    /\ op.name = "set_rt" => gen.params.rt = MappedPadded(op.arg, RT_LENGTH)
    /\ Len(gen.params.ps) = PS_LENGTH
    /\ Len(gen.params.rt) = RT_LENGTH

\* a short text with an unmapped character written over a full buffer
C6_Witness ==
    /\ op.name = "set_ps"
    /\ op.arg = TextOf(2, 1)
    /\ op.before[3] # SPACE
    /\ op.before[PS_LENGTH] # SPACE
    /\ gen.params.ps[1] # SPACE
    /\ gen.params.ps[2] = SPACE
    /\ gen.params.ps[3] = SPACE
    /\ gen.params.ps[PS_LENGTH] = SPACE

(***************************************************************************)
(* The A/B flag on the wire: groups interleaved with calls of the setters  *)
(* of the text, of the flag, of the auto-toggle and of the group mix, and  *)
(* with the wall clock passing a minute (which makes a 4A group due).      *)
(***************************************************************************)
MaxAbGroups == 5
MaxMinutes == 1

\* the group mix of "set_group_mix(4, 1, 0)"
ObservedMix == <<4, 1, 0>>

AbTexts == {TextOf(1, 1), TextOf(2, 2)}

AbMixes == {<<1, 1, 0>>, <<1, 1, 1>>}

SetRtAb(b) ==
    /\ gen' = set_rt_ab(gen, b)
    /\ obs' = [obs EXCEPT !.ab_seen = {}, !.ab_count = 0]
    /\ op' = [name |-> "set_rt_ab", arg |-> b, before |-> gen.params.ab]
    /\ UNCHANGED <<clock, word, audio, wav, twin, rx>>

\* set_group_mix; the observer starts a new window of group kinds
SetGroupMix(mix) ==
    /\ gen' = set_group_mix(gen, mix[1], mix[2], mix[3])
    /\ obs' = [obs EXCEPT !.kinds = <<>>, !.armed = (mix = ObservedMix)]
    /\ op' = [name |-> "set_group_mix", arg |-> mix, before |-> gen.group_cycle]
    /\ UNCHANGED <<clock, word, audio, wav, twin, rx>>

\* minutes since start-up
Elapsed(clk) ==
    ((clk.mjd - Clock0.mjd) * 24 + (clk.hour - Clock0.hour)) * 60
        + (clk.minute - Clock0.minute)

\* the wall clock a minute later
NextMinute(clk) ==
    IF clk.minute < 59 THEN [clk EXCEPT !.minute = @ + 1]
    ELSE IF clk.hour < 23 THEN [clk EXCEPT !.minute = 0, !.hour = @ + 1]
    ELSE [clk EXCEPT !.minute = 0, !.hour = 0, !.mjd = @ + 1]

ClockTick ==
    /\ Elapsed(clock) < MaxMinutes
    /\ clock' = NextMinute(clock)
    /\ UNCHANGED <<gen, op, obs, word, audio, wav, twin, rx>>

NextAb ==
    \/ EmitGroup(MaxAbGroups)
    \/ \E s \in AbTexts : SetRt(s)
    \/ \E b \in BOOLEAN : SetRtAb(b)
    \/ \E b \in BOOLEAN : SetRtAbAuto(b)
    \/ \E mix \in AbMixes : SetGroupMix(mix)
    \/ ClockTick

SpecAb == Init /\ [][NextAb]_vars

\* C5: with auto-toggle off, and since the last call that changed the RT text,
\* set ab or set the auto-toggle, every 2A group emitted carries the same
\* A/B bit (bit 4 of block B), whatever 0A and 4A groups come in between.
C5_AbConstant ==
    ~gen.params.ab_auto => Cardinality(obs.ab_seen) <= 1

\* two 2A groups with the flag set, a 4A group having been emitted as well
C5_Witness ==
    /\ ~gen.params.ab_auto
    /\ obs.ab_seen = {1}
    /\ obs.ab_count >= 2
    /\ gen.latest_minutes = Clock0.minute

(***************************************************************************)
(* Alternative frequencies.  The lists passed to set_af_list_mhz hold the  *)
(* f32 values of 87.5, 87.6, 98.0, 107.9 and 108.0 MHz and NaN (the        *)
(* command line passes on whatever str::parse::<f32> accepts,              *)
(* pulse_fm_rds_cli.rs:120-127), in any order and with repetitions, up to  *)
(* MaxAfLen entries; and the list [98.0, 99.8, 98.0, 200.0].               *)
(***************************************************************************)
MaxAfLen == 2
MaxAfGroups == 3

AfValues ==
    {f32_parse(8750), f32_parse(8760), f32_parse(9800), f32_parse(10790),
     f32_parse(10800), F32_NAN}

ExampleAfList ==
    <<f32_parse(9800), f32_parse(9980), f32_parse(9800), f32_parse(20000)>>

AfLists == UNION {[1..n -> AfValues] : n \in 0..MaxAfLen} \cup {ExampleAfList}

SetAfList(freqs) ==
    /\ gen' = set_af_list_mhz(gen, freqs)
    /\ op' = [name |-> "set_af_list_mhz", arg |-> freqs, before |-> gen.af_pos]
    /\ UNCHANGED <<clock, obs, word, audio, wav, twin, rx>>

NextAf ==
    \/ \E freqs \in AfLists : SetAfList(freqs)
    \/ EmitGroup(MaxAfGroups)

SpecAf == Init /\ [][NextAf]_vars

\* the valid frequencies of a list, without repetition: the numbers from
\* 87.6 to 107.9 MHz (NaN is not a frequency)
ValidFreqs(freqs) ==
    {freqs[i] : i \in {j \in 1..Len(freqs) :
                          /\ ~freqs[j].nan
                          /\ freqs[j].m >= F32_87_6.m
                          /\ freqs[j].m <= F32_107_9.m}}

\* C7: after set_af_list_mhz(freqs), with L the deduplicated set of valid
\* frequencies of freqs, the AF stream is empty if L is empty, and otherwise
\* starts with 0xE0 + |L|, continues with |L| codes in 1..204 and has even
\* length, a single 0x00 being appended exactly when 1 + |L| is odd.
C7_AfStream ==
    op.name = "set_af_list_mhz" =>
        IF ValidFreqs(op.arg) = {}
        THEN gen.params.af_stream = <<>>
        ELSE /\ gen.params.af_stream[1] = 224 + Cardinality(ValidFreqs(op.arg))
             /\ Len(gen.params.af_stream) =
                  1 + Cardinality(ValidFreqs(op.arg))
                    + ((1 + Cardinality(ValidFreqs(op.arg))) % 2)
             /\ \A k \in 1..Cardinality(ValidFreqs(op.arg)) :
                    gen.params.af_stream[k + 1] \in 1..204
             /\ (1 + Cardinality(ValidFreqs(op.arg))) % 2 = 1 =>
                    gen.params.af_stream[Len(gen.params.af_stream)] = 0

BoundaryFreqs ==
    {f32_parse(8750), f32_parse(8760), f32_parse(10790), f32_parse(10800)}

Elements(s) == {s[i] : i \in 1..Len(s)}

\* C8: 87.6 and 107.9 MHz are accepted, as codes 1 and 204; 87.5 and 108.0 MHz
\* are dropped; a list of rejected frequencies only leaves the AF stream
\* empty and the AF position 0.
C8_Boundaries ==
    (op.name = "set_af_list_mhz" /\ Elements(op.arg) \subseteq BoundaryFreqs) =>
        /\ gen.params.af_stream =
             IF {f32_parse(8760), f32_parse(10790)} \subseteq Elements(op.arg)
             THEN <<226, 1, 204, 0>>
             ELSE IF f32_parse(8760) \in Elements(op.arg) THEN <<225, 1>>
             ELSE IF f32_parse(10790) \in Elements(op.arg) THEN <<225, 204>>
             ELSE <<>>
        /\ gen.af_pos = 0

\* a list of 87.5 and 108.0 MHz given while the AF position was not 0
C8_Witness ==
    /\ op.name = "set_af_list_mhz"
    /\ op.arg = <<f32_parse(8750), f32_parse(10800)>>
    /\ op.before > 0
    /\ gen.params.af_stream = <<>>
    /\ gen.af_pos = 0

\* C9 as stated: for the list [98.0, 99.8, 98.0, 200.0] the stream has length
\* 4 and starts 0xE2, 0x19, 0x7D (codes 25 and 125).
C9_AsStated ==
    (op.name = "set_af_list_mhz" /\ op.arg = ExampleAfList) =>
        /\ Len(gen.params.af_stream) = 4
        /\ SubSeq(gen.params.af_stream, 1, 3) = <<226, 25, 125>>

\* C9: for the list [98.0, 99.8, 98.0, 200.0] the stream is 0xE2, 0x69, 0x7B,
\* 0x00: the header for two frequencies, the codes 105 and 123 and one pad
\* byte, 200.0 dropped and the second 98.0 removed; its length is 4.
C9_ExampleStream ==
    (op.name = "set_af_list_mhz" /\ op.arg = ExampleAfList) =>
        gen.params.af_stream = <<226, 105, 123, 0>>

C9_Witness ==
    /\ op.name = "set_af_list_mhz"
    /\ op.arg = ExampleAfList
    /\ Len(gen.params.af_stream) = 4
    /\ gen.params.af_stream[1] = 226

(***************************************************************************)
(* The group mix.  Groups are emitted before and after set_group_mix(4, 1, *)
(* 0), MaxPre of them at most before the window of KindWindow groups       *)
(* starts; the clock-time group is switched on and off by set_ct_enabled.  *)
(***************************************************************************)
MaxPre == 6

\* set_ct_enabled; the observer starts a new window of group kinds
SetCtEnabled(b) ==
    /\ gen' = set_ct_enabled(gen, b)
    /\ obs' = [obs EXCEPT !.kinds = <<>>]
    /\ op' = [name |-> "set_ct_enabled", arg |-> b, before |-> gen.params.ct_enabled]
    /\ UNCHANGED <<clock, word, audio, wav, twin, rx>>

\* a configuration call is made while at most MaxPre groups have been emitted
Configure ==
    /\ obs.n_groups <= MaxPre
    /\ \/ SetGroupMix(ObservedMix)
       \/ \E b \in BOOLEAN : SetCtEnabled(b)

NextMix ==
    \/ Configure
    \/ EmitGroup(MaxPre + KindWindow)

SpecMix == Init /\ [][NextMix]_vars

Count(s, x) == Cardinality({i \in 1..Len(s) : s[i] = x})

\* C10: after set_group_mix(4, 1, 0), with the clock-time group disabled and
\* no periodic clock-time interval, any 25 consecutive groups emitted are 20
\* 0A groups carrying PS data, 5 2A groups and no 4A group, however many
\* groups were emitted before the call.
C10_GroupMix ==
    (/\ obs.armed
     /\ ~gen.params.ct_enabled
     /\ gen.ct_interval_groups = 0
     /\ Len(obs.kinds) = KindWindow) =>
        /\ Count(obs.kinds, "0A") = 20
        /\ Count(obs.kinds, "2A") = 5
        /\ Count(obs.kinds, "4A") = 0

(***************************************************************************)
(* The group cycle.  set_group_mix is called with every combination of     *)
(* counts up to MaxCount, zero included, between the groups emitted.       *)
(***************************************************************************)
MaxCount == 2
MaxCycleGroups == 4

CycleMixes == {<<a, b, c>> : a \in 0..MaxCount, b \in 0..MaxCount, c \in 0..MaxCount}

NextCycle ==
    \/ \E mix \in CycleMixes : SetGroupMix(mix)
    \/ EmitGroup(MaxCycleGroups)

SpecCycle == Init /\ [][NextCycle]_vars

\* C11: after any set_group_mix(a, b, c), a = 0 and a = b = c = 0 included,
\* the group cycle is non-empty and has a 0A entry (a count of 0 counts as
\* 1), and group_index is a valid index into the cycle in every later state.
C11_CycleNonEmpty ==
    /\ Len(gen.group_cycle) > 0
    /\ Count(gen.group_cycle, 0) >= 1
    /\ gen.group_index \in 0..(Len(gen.group_cycle) - 1)
    /\ op.name = "set_group_mix" =>
          /\ Count(gen.group_cycle, 0) = Max(op.arg[1], 1)
          /\ gen.group_index = 0

\* set_group_mix(0, 0, 0) called after groups had moved group_index along a
\* longer cycle
C11_Witness ==
    /\ op.name = "set_group_mix"
    /\ op.arg = <<0, 0, 0>>
    /\ Len(op.before) > 2
    /\ obs.n_groups >= 2
    /\ gen.group_cycle = <<0, 2>>

(***************************************************************************)
(* The periodic clock-time group.  set_ct_interval_groups(G) is called     *)
(* while at most MaxCtPre groups have been emitted, a second time one group *)
(* after the first; the group mix is chosen before, and the minute         *)
(* advances at any time.                                                   *)
(***************************************************************************)
MaxInterval == 3
MaxCtGroups == 7
MaxCtPre == 2

CtIntervals == 1..MaxInterval

\* set_ct_interval_groups; the observer starts counting groups anew
SetCtIntervalGroups(G) ==
    /\ obs.n_bits <= MaxCtPre * BITS_PER_GROUP
    /\ ~obs.armed \/ Len(obs.kinds) = 1
    /\ gen' = set_ct_interval_groups(gen, G)
    /\ obs' = [obs EXCEPT !.kinds = <<>>, !.armed = TRUE, !.n_groups = 0]
    /\ op' = [name |-> "set_ct_interval_groups", arg |-> G,
              before |-> <<gen.ct_interval_groups, gen.ct_counter>>]
    /\ UNCHANGED <<clock, word, audio, wav, twin, rx>>

NextCt ==
    \/ \E G \in CtIntervals : SetCtIntervalGroups(G)
    \/ ~obs.armed /\ \E mix \in AbMixes : SetGroupMix(mix)
    \/ EmitGroup(MaxCtGroups)
    \/ ClockTick

SpecCt == Init /\ [][NextCt]_vars

\* C12: with a periodic interval G > 0 set by set_ct_interval_groups(G), the
\* G-th, 2G-th, 3G-th, ... groups emitted after the call are 4A clock-time
\* groups, whatever the minute does and whatever the group cycle selects,
\* and the per-group counter is 0 after each of them.
C12_PeriodicCt ==
    (obs.armed /\ gen.ct_interval_groups > 0) =>
        /\ \A j \in 1..Len(obs.kinds) :
              j % gen.ct_interval_groups = 0 => obs.kinds[j] = "4A"
        /\ gen.ct_counter = Len(obs.kinds) % gen.ct_interval_groups

\* six groups after set_ct_interval_groups(3), the minute having advanced:
\* the third and the sixth are clock-time groups, the fourth and fifth not
C12_Witness ==
    /\ obs.armed
    /\ gen.ct_interval_groups = 3
    /\ Len(obs.kinds) = 6
    /\ obs.kinds[3] = "4A" /\ obs.kinds[6] = "4A"
    /\ obs.kinds[4] # "4A" /\ obs.kinds[5] # "4A"
    /\ Elapsed(clock) = 1
    /\ gen.ct_counter = 0

(***************************************************************************)
(* The PS segments.  Groups are emitted while the PS name, the AF list and *)
(* the group mix are changed between them.                                 *)
(***************************************************************************)
MaxPsGroups == 7

PsNames == {TextOf(PS_LENGTH, 1), TextOf(4, 2)}

PsAfLists == {<<>>, <<f32_parse(9800)>>}

NextPs ==
    \/ \E s \in PsNames : SetPs(s)
    \/ \E freqs \in PsAfLists : SetAfList(freqs)
    \/ \E mix \in AbMixes : SetGroupMix(mix)
    \/ EmitGroup(MaxPsGroups)

SpecPs == Init /\ [][NextPs]_vars

\* a group that a receiver decodes as 0A: type code 0, version A in block B
Is0A(blocks) == blocks # <<>> /\ Shr(blocks[2], 11) = 0

\* C13: consecutive 0A groups carry the PS segment addresses s, s + 1, s + 2,
\* s + 3 (mod 4) in the two low bits of block B (the address of a 0A group
\* just emitted is the predecessor of ps_state, which only 0A groups
\* advance), block D of each is (ps[2s] << 8) | ps[2s + 1] for its own
\* address s, and block C is 0xCDCD whenever the AF stream is empty.
C13_PsSegments ==
    (op.name = "get_rds_samples" /\ Is0A(obs.last)) =>
        LET s == BitAnd(obs.last[2], 3)
        IN  /\ s = (gen.ps_state + 3) % 4
            /\ obs.last[4] = BitOr(Shl16(gen.params.ps[2 * s + 1], 8),
                                   gen.params.ps[2 * s + 2])
            /\ gen.params.af_stream = <<>> => obs.last[3] = 52685

(***************************************************************************)
(* The live engine: start_engine and the threads it starts.  A step of a   *)
(* callback ends with one access to what the threads share (the ring, an   *)
(* atomic, a mutex); what a callback owns alone is updated with it.         *)
(***************************************************************************)
\* output_config.channels (audio_io.rs:680) of a stereo device
OutputChannels == 2

\* the configuration the application starts with (app.rs:340-383), a
\* look-ahead of 2 ms being 456 samples
DefaultConfig ==
    [input |-> TRUE, ps |-> TextOf(4, 1), rt |-> TextOf(2, 2), pi |-> 29184,
     tp |-> FALSE, ta |-> FALSE, pty |-> 10, ms |-> TRUE, di |-> 1,
     ab |-> FALSE, ab_auto |-> TRUE, ct_enabled |-> TRUE,
     af_list_mhz |-> <<f32_parse(9800)>>,
     ps_scroll_enabled |-> FALSE, ps_scroll_text |-> TextOf(PS_LENGTH, 1),
     ps_scroll_cps |-> 2,
     rt_scroll_enabled |-> FALSE, rt_scroll_text |-> TextOf(PS_LENGTH, 2),
     rt_scroll_cps |-> 2,
     output_gain |-> 100, limiter_enabled |-> TRUE, limiter_threshold |-> 95,
     limiter_lookahead |-> 456,
     group_0a |-> 4, group_2a |-> 1, group_4a |-> 0, ct_interval_groups |-> 0,
     ps_alt_list |-> <<>>, ps_alt_interval |-> 0]

\* start_engine (audio_io.rs:560-811): the configuration applied under the
\* mutex before the streams are built and played
StartEngine(c) ==
    /\ threads.main.pc = "start"
    /\ locks.shared = {}
    /\ gen' = configure_groups(configure_rds(gen, c), c)
    /\ mpx' = configure_mpx(mpx, c)
    /\ threads' = [threads EXCEPT !.main = [pc |-> "running", input |-> c.input]]
    /\ op' = [name |-> "start_engine", arg |-> c.limiter_lookahead, before |-> <<>>]
    /\ UNCHANGED <<clock, obs, word, resampler, ring, atomics, locks, seen,
                 wav, twin, rx>>

\* the output stream calls the callback with a buffer of frames frames, max
\* bounding the samples produced in all
OutputEnter(frames, max) ==
    /\ threads.main.pc = "running"
    /\ threads.output.pc = "idle"
    /\ seen.calls + frames <= max
    /\ threads' = [threads EXCEPT !.output = [@ EXCEPT !.pc = "lock", !.index = 0,
                                              !.len = frames * OutputChannels]]
    /\ seen' = [seen EXCEPT !.entries = 0, !.params = {}]
    /\ op' = [name |-> "output callback", arg |-> frames, before |-> <<>>]
    /\ UNCHANGED <<gen, clock, obs, word, resampler, mpx, ring, atomics, locks,
                 wav, twin, rx>>

\* audio_io.rs:685
OutputLock ==
    /\ threads.output.pc = "lock"
    /\ output_may_enter(locks)
    /\ locks' = [locks EXCEPT !.shared = @ \cup {"output"}]
    /\ threads' = [threads EXCEPT !.output.pc = "loop"]
    /\ seen' = [seen EXCEPT !.entries = @ + 1]
    /\ op' = [name |-> "lock", arg |-> "output", before |-> locks.shared]
    /\ UNCHANGED <<gen, clock, obs, word, resampler, mpx, ring, atomics, wav, twin, rx>>

\* audio_io.rs:689-691: next_sample calls fetch, which pops the ring
OutputPop ==
    /\ threads.output.pc = "loop"
    /\ threads.output.index + OutputChannels <= threads.output.len
    /\ resampler_needs_fetch(resampler)
    /\ \E r \in {ring_pop(ring)} :
          /\ ring' = r.ring
          /\ threads' = [threads EXCEPT
                 !.output.pc = IF r.some THEN "fill_load" ELSE "xrun",
                 !.output.frame = r.frame]
          /\ op' = [name |-> "pop", arg |-> r.frame, before |-> ring]
          /\ seen' = [seen EXCEPT !.pops = @ + 1,
                                  !.underruns = IF ring = <<>> THEN @ + 1 ELSE @,
                                  !.pulled = Append(@, r.frame)]
    /\ UNCHANGED <<gen, clock, obs, word, resampler, mpx, atomics, locks,
                 wav, twin, rx>>

\* audio_io.rs:693
OutputFillLoad ==
    /\ threads.output.pc = "fill_load"
    /\ threads' = [threads EXCEPT !.output.pc = "fill_store",
                                  !.output.prev = atomics.buffer_fill]
    /\ op' = [name |-> "load", arg |-> "output", before |-> atomics.buffer_fill]
    /\ UNCHANGED <<gen, clock, obs, word, resampler, mpx, ring, atomics, locks, seen,
                 wav, twin, rx>>

\* audio_io.rs:702: engine.next_sample(frame), whose value the resampler
\* stores (audio_io.rs:75-84); counted says that the frame stands for an
\* empty ring
Tick(counted) ==
    /\ \E rds \in {get_rds_sample(gen, clock)} :
         \E r \in {LiveMpx_next_sample(mpx, rds)} :
          /\ gen' = r.gen
          /\ mpx' = r.lim.mpx
          /\ resampler' = resampler_fetched(resampler, r.lim.out)
          /\ obs' = ObserveAll(obs, r.events)
    /\ threads' = [threads EXCEPT !.output.pc = "loop"]
    /\ seen' = [seen EXCEPT !.ticks = @ + 1,
                            !.fed = Append(@, threads.output.frame),
                            !.params = @ \cup {Params(mpx, gen)},
                            !.unguarded = @ \/ locks.shared # {"output"}]
    /\ op' = [name |-> "fetch",
              arg |-> [frame |-> threads.output.frame, underrun |-> counted],
              before |-> [xrun_count |-> atomics.xrun_count,
                          sample_ticks |-> gen.sample_ticks,
                          fir_index |-> mpx.fir_index,
                          phase_19 |-> mpx.phase_19,
                          phase_38 |-> mpx.phase_38]]

\* audio_io.rs:694 and 702
OutputFillStore ==
    /\ threads.output.pc = "fill_store"
    /\ atomics' = [atomics EXCEPT !.buffer_fill = saturating_sub(threads.output.prev)]
    /\ Tick(FALSE)
    /\ UNCHANGED <<clock, word, ring, locks, wav, twin, rx>>

\* audio_io.rs:696-702: the ring was empty
OutputXrun ==
    /\ threads.output.pc = "xrun"
    /\ atomics' = underrun(atomics)
    /\ Tick(TRUE)
    /\ UNCHANGED <<clock, word, ring, locks, wav, twin, rx>>

\* audio_io.rs:86-89 and 704-706: next_sample returns and the sample is
\* written to every channel
OutputEmit ==
    /\ threads.output.pc = "loop"
    /\ threads.output.index + OutputChannels <= threads.output.len
    /\ ~resampler_needs_fetch(resampler)
    /\ \E e \in {resampler_emit(resampler)} :
          /\ resampler' = e.resampler
          /\ op' = [name |-> "OutputResampler::next_sample", arg |-> e.sample,
                    before |-> resampler.phase]
    /\ threads' = [threads EXCEPT !.output.index = @ + OutputChannels]
    /\ seen' = [seen EXCEPT !.calls = @ + 1]
    /\ UNCHANGED <<gen, clock, obs, word, mpx, ring, atomics, locks,
                 wav, twin, rx>>

\* audio_io.rs:778-790: the scope buffer updated under its mutex, then the
\* callback returns and the guard of `shared` is dropped
OutputReturn ==
    /\ threads.output.pc = "loop"
    /\ threads.output.index + OutputChannels > threads.output.len
    /\ locks.scope = {}
    /\ locks' = [locks EXCEPT !.shared = @ \ {"output"}]
    /\ threads' = [threads EXCEPT !.output.pc = "idle"]
    /\ op' = [name |-> "output callback returns", arg |-> threads.output.len,
              before |-> locks.shared]
    /\ UNCHANGED <<gen, clock, obs, word, resampler, mpx, ring, atomics, seen,
                 wav, twin, rx>>

\* the steps of the output callback
Output(frames, max) ==
    \/ OutputEnter(frames, max)
    \/ OutputLock
    \/ OutputPop
    \/ OutputFillLoad
    \/ OutputFillStore
    \/ OutputXrun
    \/ OutputEmit
    \/ OutputReturn

\* the k-th frame captured
CapturedFrame(k) == [left |-> k, right |-> k]

\* the input stream calls the callback with n frames (audio_io.rs:595), max
\* bounding the frames captured in all
CaptureEnter(n, max) ==
    /\ threads.main.pc = "running"
    /\ threads.main.input
    /\ threads.capture.pc = "idle"
    /\ seen.captured + n <= max
    /\ threads' = [threads EXCEPT !.capture = [@ EXCEPT !.pc = "push", !.i = 0, !.n = n]]
    /\ op' = [name |-> "input callback", arg |-> n, before |-> <<>>]
    /\ UNCHANGED <<gen, clock, obs, word, resampler, mpx, ring, atomics, locks, seen,
                 wav, twin, rx>>

\* audio_io.rs:596-600: the next frame, named by its rank among the frames
\* captured, is pushed
CapturePush ==
    /\ threads.capture.pc = "push"
    /\ threads.capture.i < threads.capture.n
    /\ \E r \in {ring_push(ring, CapturedFrame(seen.captured + 1))} :
          /\ ring' = r.ring
          /\ threads' = [threads EXCEPT
                 !.capture.pc = IF r.ok THEN "fill_load" ELSE "xrun",
                 !.capture.i = @ + 1]
          /\ op' = [name |-> "push", arg |-> seen.captured + 1,
                    before |-> [ring |-> ring, ok |-> r.ok, shared |-> locks.shared]]
          /\ seen' = [seen EXCEPT !.captured = @ + 1,
                                  !.overruns = IF r.ok THEN @ ELSE @ + 1,
                                  !.pushed = IF r.ok
                                             THEN Append(@, CapturedFrame(seen.captured + 1))
                                             ELSE @]
    /\ UNCHANGED <<gen, clock, obs, word, resampler, mpx, atomics, locks,
                 wav, twin, rx>>

\* audio_io.rs:601: the ring was full and the frame is dropped
CaptureXrun ==
    /\ threads.capture.pc = "xrun"
    /\ atomics' = overrun(atomics)
    /\ threads' = [threads EXCEPT !.capture.pc = "push"]
    /\ op' = [name |-> "overrun", arg |-> seen.captured,
              before |-> [xrun_count |-> atomics.xrun_count, ring |-> ring]]
    /\ UNCHANGED <<gen, clock, obs, word, resampler, mpx, ring, locks, seen,
                 wav, twin, rx>>

\* audio_io.rs:603
CaptureFillLoad ==
    /\ threads.capture.pc = "fill_load"
    /\ threads' = [threads EXCEPT !.capture.pc = "fill_store",
                                  !.capture.prev = atomics.buffer_fill]
    /\ op' = [name |-> "load", arg |-> "capture", before |-> atomics.buffer_fill]
    /\ UNCHANGED <<gen, clock, obs, word, resampler, mpx, ring, atomics, locks, seen,
                 wav, twin, rx>>

\* audio_io.rs:604
CaptureFillStore ==
    /\ threads.capture.pc = "fill_store"
    /\ atomics' = [atomics EXCEPT !.buffer_fill = saturating_add(threads.capture.prev)]
    /\ threads' = [threads EXCEPT !.capture.pc = "push"]
    /\ op' = [name |-> "store", arg |-> "capture", before |-> atomics.buffer_fill]
    /\ UNCHANGED <<gen, clock, obs, word, resampler, mpx, ring, locks, seen,
                 wav, twin, rx>>

\* audio_io.rs:606: the frames of the buffer are exhausted
CaptureReturn ==
    /\ threads.capture.pc = "push"
    /\ threads.capture.i >= threads.capture.n
    /\ threads' = [threads EXCEPT !.capture.pc = "idle"]
    /\ op' = [name |-> "input callback returns", arg |-> threads.capture.n,
              before |-> <<>>]
    /\ UNCHANGED <<gen, clock, obs, word, resampler, mpx, ring, atomics, locks, seen,
                 wav, twin, rx>>

\* the steps of the capture callback
Capture(n, max) ==
    \/ CaptureEnter(n, max)
    \/ CapturePush
    \/ CaptureXrun
    \/ CaptureFillLoad
    \/ CaptureFillStore
    \/ CaptureReturn

\* the thread that owns the AudioEngine calls a setter (audio_io.rs:841-989),
\* max bounding the calls in all
ControllerCall(call, max) ==
    /\ threads.main.pc = "running"
    /\ threads.controller.pc = "idle"
    /\ Len(seen.issued) < max
    /\ threads' = [threads EXCEPT !.controller = [pc |-> "lock", call |-> call]]
    /\ seen' = [seen EXCEPT !.issued = Append(@, call)]
    /\ op' = [name |-> "update", arg |-> call, before |-> <<>>]
    /\ UNCHANGED <<gen, clock, obs, word, resampler, mpx, ring, atomics, locks,
                 wav, twin, rx>>

\* `if let Ok(mut engine) = self.shared.lock()`
ControllerLock ==
    /\ threads.controller.pc = "lock"
    /\ controller_may_enter(locks)
    /\ locks' = [locks EXCEPT !.shared = @ \cup {"controller"}]
    /\ threads' = [threads EXCEPT !.controller.pc = "set"]
    /\ op' = [name |-> "lock", arg |-> "controller", before |-> locks.shared]
    /\ UNCHANGED <<gen, clock, obs, word, resampler, mpx, ring, atomics, seen,
                 wav, twin, rx>>

\* the setter of LiveMpx runs and the guard is dropped
ControllerSet ==
    /\ threads.controller.pc = "set"
    /\ \E r \in {apply_call(mpx, gen, threads.controller.call)} :
          /\ mpx' = r.mpx
          /\ gen' = r.gen
    /\ locks' = [locks EXCEPT !.shared = @ \ {"controller"}]
    /\ threads' = [threads EXCEPT !.controller.pc = "idle"]
    /\ seen' = [seen EXCEPT !.applied = Append(@, threads.controller.call),
                            !.unguarded = @ \/ locks.shared # {"controller"}]
    /\ op' = [name |-> "set", arg |-> threads.controller.call,
              before |-> [pc |-> threads.output.pc, shared |-> locks.shared]]
    /\ UNCHANGED <<clock, obs, word, resampler, ring, atomics, wav, twin, rx>>

(***************************************************************************)
(* The output resampler driven by the output callback alone: no input      *)
(* device, so every fetch finds the ring empty.                            *)
(***************************************************************************)
MaxCalls == 20

OutFrames == 1..2

ResamplerConfigs == {[DefaultConfig EXCEPT !.input = FALSE, !.limiter_lookahead = 2]}

NextResampler ==
    \/ \E c \in ResamplerConfigs : StartEngine(c)
    \/ \E frames \in OutFrames : OutputEnter(frames, MaxCalls)
    \/ OutputLock
    \/ OutputPop
    \/ OutputXrun
    \/ OutputEmit
    \/ OutputReturn

SpecResampler == Init /\ [][NextResampler]_vars

\* a call of OutputResampler::next_sample has just returned
Returned == op.name = "OutputResampler::next_sample"

\* 0 <= x < 1
InUnit(x) == ~x.nan /\ 0 <= x.m /\ x.m < F32_SCALE

FloorNr(N) == (N * INTERNAL_SAMPLE_RATE) \div OUTPUT_SAMPLE_RATE

\* C15: after the first N calls of OutputResampler::next_sample the fetch
\* callback has been invoked, the priming pull included, floor(N * r) or
\* floor(N * r) - 1 times, r = 228000 / 192000; precisely, the fetches
\* before the last one and the weight of the N-th call add up to the source
\* position (N - 1) * r.
C15_FetchCount ==
    Returned =>
        /\ seen.ticks - FloorNr(seen.calls) \in {-1, 0, 1}
        /\ (seen.ticks - 1) * F32_SCALE + op.arg.t.m
               = (seen.calls - 1) * resampler.step.m

\* sixteen calls, a whole period of the phase, have pulled 18 samples, one
\* less than floor(16 * 19 / 16)
C15_Witness ==
    /\ Returned
    /\ seen.calls = 16
    /\ seen.ticks = 18
    /\ FloorNr(seen.calls) = 19

(***************************************************************************)
(* The output callback and the setters of the controlling thread           *)
(* interleaved, without an input device.                                   *)
(***************************************************************************)
MaxCtlCalls == 6
MaxCtlSets == 2

ControlCalls ==
    {[name |-> "update_limiter_lookahead", arg |-> <<n>>] : n \in {0, 3, LOOKAHEAD_MAX + 1}}
        \cup {[name |-> "update_gain", arg |-> <<150>>],
              [name |-> "update_limiter", arg |-> <<FALSE, 95>>],
              [name |-> "update_limiter", arg |-> <<TRUE, 90>>]}

NextControl ==
    \/ \E c \in ResamplerConfigs : StartEngine(c)
    \/ \E frames \in OutFrames : OutputEnter(frames, MaxCtlCalls)
    \/ OutputLock
    \/ OutputPop
    \/ OutputXrun
    \/ OutputEmit
    \/ OutputReturn
    \/ \E call \in ControlCalls : ControllerCall(call, MaxCtlSets)
    \/ ControllerLock
    \/ ControllerSet

SpecControl == Init /\ [][NextControl]_vars

\* C16: set_limiter_lookahead(n) stores 1 for n = 0, 2048 for n > 2048 and
\* n otherwise, and after every call of LiveMpx::next_sample the limiter
\* FIFO holds at most limiter_lookahead, hence at most 2048, samples.
C16_LookaheadBound ==
    /\ (op.name = "set" /\ op.arg.name = "update_limiter_lookahead") =>
           mpx.limiter_lookahead =
               IF op.arg.arg[1] = 0 THEN 1
               ELSE IF op.arg.arg[1] > 2048 THEN 2048
               ELSE op.arg.arg[1]
    /\ op.name = "fetch" =>
           /\ Len(mpx.limiter_buffer) <= mpx.limiter_lookahead
           /\ mpx.limiter_lookahead <= 2048

\* next_sample has filled the FIFO to a look-ahead of 3, set after a
\* look-ahead of 2049 was set and clamped
C16_Witness ==
    /\ op.name = "fetch"
    /\ mpx.limiter_enabled
    /\ mpx.limiter_lookahead = 3
    /\ Len(mpx.limiter_buffer) = 3
    /\ Len(seen.applied) = 2
    /\ seen.applied[1].arg = <<LOOKAHEAD_MAX + 1>>

(***************************************************************************)
(* The engine with an input device: the output callback and the capture    *)
(* callback interleaved.                                                   *)
(***************************************************************************)
MaxEngCalls == 3
MaxCaptured == 3

CaptureFrames == 1..2

EngineConfigs == {[DefaultConfig EXCEPT !.limiter_lookahead = 2]}

NextEngine ==
    \/ \E c \in EngineConfigs : StartEngine(c)
    \/ \E frames \in OutFrames : Output(frames, MaxEngCalls)
    \/ \E n \in CaptureFrames : Capture(n, MaxCaptured)

SpecEngine == Init /\ [][NextEngine]_vars

\* the increments of xrun_count not yet made for a ring found empty or full
PendingXruns ==
    (IF threads.output.pc = "xrun" THEN 1 ELSE 0)
        + (IF threads.capture.pc = "xrun" THEN 1 ELSE 0)

\* C17: a frame pushed into a full ring is dropped, the frames in the ring
\* and their order unchanged; xrun_count is incremented by exactly one for
\* it; the capture callback takes no lock and is never blocked, whoever
\* holds the MPX mutex.
C17_Overrun ==
    /\ (op.name = "push" /\ Len(op.before.ring) >= MaxRing) =>
           /\ ~op.before.ok
           /\ ring = op.before.ring
           /\ \A i \in 1..Len(ring) : ring[i] # CapturedFrame(op.arg)
           /\ threads.capture.pc = "xrun"
           /\ locks.shared = op.before.shared
    /\ op.name = "overrun" =>
           /\ atomics.xrun_count = fetch_add(op.before.xrun_count, 1)
           /\ ring = op.before.ring
    /\ fetch_add(atomics.xrun_count, PendingXruns)
           = u32(seen.underruns + seen.overruns)
    /\ (threads.capture.pc = "push" /\ threads.capture.i < threads.capture.n) =>
           ENABLED CapturePush
    /\ threads.capture.pc = "xrun" => ENABLED CaptureXrun

\* a frame was dropped at a full ring while the output callback held the
\* mutex, and counted
C17_Witness ==
    /\ op.name = "overrun"
    /\ Len(ring) = MaxRing
    /\ locks.shared = {"output"}
    /\ seen.overruns = 1
    /\ atomics.xrun_count = u32(seen.underruns + 1)

\* the output callback is between a pop of the ring and the tick it feeds
InFetch == threads.output.pc \in {"xrun", "fill_load", "fill_store"}

\* C18: every tick of the output callback requests exactly one frame from
\* the ring; when the ring is empty the tick uses the silent frame,
\* xrun_count is incremented by exactly one (modulo 2^32), and the MPX and
\* RDS state advance by one tick as on any other tick, the callback going
\* on with its loop.
C18_Underrun ==
    /\ seen.pops = seen.ticks + (IF InFetch THEN 1 ELSE 0)
    /\ gen.sample_ticks = seen.ticks
    /\ (op.name = "pop" /\ op.before = <<>>) =>
           /\ op.arg = SILENT_FRAME
           /\ threads.output.pc = "xrun"
    /\ op.name = "fetch" =>
           /\ gen.sample_ticks = op.before.sample_ticks + 1
           /\ mpx.fir_index = (op.before.fir_index + 1) % FIR_SIZE
           /\ mpx.phase_19 = (op.before.phase_19 + 1) % CARRIER_19_LEN
           /\ mpx.phase_38 = (op.before.phase_38 + 1) % CARRIER_38_LEN
           /\ threads.output.pc = "loop"
           /\ IF op.arg.underrun
              THEN /\ op.arg.frame = SILENT_FRAME
                   /\ atomics.xrun_count = fetch_add(op.before.xrun_count, 1)
              ELSE /\ op.arg.frame # SILENT_FRAME
                   /\ atomics.xrun_count = op.before.xrun_count

\* a tick on an empty ring after a tick fed by a captured frame
C18_Witness ==
    /\ op.name = "fetch"
    /\ op.arg.underrun
    /\ seen.underruns >= 1
    /\ seen.pops > seen.underruns
    /\ gen.sample_ticks = seen.ticks

\* the calls applied one after the other
RECURSIVE ApplyAll(_, _, _)
ApplyAll(m, g, calls) ==
    IF calls = <<>> THEN [mpx |-> m, gen |-> g]
    ELSE ApplyAll(apply_call(m, g, Head(calls)).mpx,
                  apply_call(m, g, Head(calls)).gen, Tail(calls))

\* the parameters after the calls, from those of the configuration c
ParamsAfter(c, calls) ==
    Params(ApplyAll(configure_mpx(LiveMpx_new, c), gen, calls).mpx, gen)

\* the output callback holds the guard of `shared`
InCallback == threads.output.pc \in {"loop", "xrun", "fill_load", "fill_store"}

\* C19: all ticks of one output callback see the same setter-controlled
\* parameters; a setter is applied only while no output callback is between
\* its entry and its return, so that a change is seen from the start of a
\* later callback; and the calls issued by the controller are applied to the
\* MPX state in the order issued.
C19_ChangesBetweenCallbacks ==
    /\ Cardinality(seen.params) <= 1
    /\ op.name = "set" => op.before.pc \in {"idle", "lock"}
    /\ Len(seen.applied) <= Len(seen.issued)
    /\ \A i \in 1..Len(seen.applied) : seen.applied[i] = seen.issued[i]
    /\ threads.main.pc = "running" =>
           \A c \in ResamplerConfigs :
               Params(mpx, gen) = ParamsAfter(c, seen.applied)

\* two different changes have been applied in the order issued, and the
\* tick just computed, the third or a later one, sees both
C19_Witness ==
    /\ op.name = "fetch"
    /\ Len(seen.applied) = 2
    /\ seen.applied[1].name # seen.applied[2].name
    /\ seen.applied[2].name = "update_gain"
    /\ seen.params = {Params(mpx, gen)}
    /\ mpx.gain = 150
    /\ seen.ticks >= 3

\* C20: the LiveMpx state is accessed only by the holder of the MPX mutex;
\* the output callback acquires it exactly once, at entry, and holds it
\* until it returns; a setter is in its critical section only while the
\* output callback is not.
C20_MutexDiscipline ==
    /\ Cardinality(locks.shared) <= 1
    /\ ~seen.unguarded
    /\ InCallback => locks.shared = {"output"} /\ seen.entries = 1
    /\ threads.output.pc \in {"idle", "lock"} => "output" \notin locks.shared
    /\ threads.controller.pc = "set" <=> "controller" \in locks.shared
    /\ op.name = "output callback returns" => seen.entries = 1

\* a setter waits for the mutex while the output callback, holding it,
\* computes a tick
C20_Witness ==
    /\ op.name = "fetch"
    /\ threads.controller.pc = "lock"
    /\ locks.shared = {"output"}
    /\ seen.entries = 1
    /\ Len(seen.applied) = 1

(***************************************************************************)
(* The output callback and meter_snapshot, called by the controlling       *)
(* thread, on the scope mutex.                                             *)
(***************************************************************************)
MaxMeterCalls == 4

\* AudioEngine::meter_snapshot (audio_io.rs:821): self.scope.lock() returns
\* when the scope mutex is free
MeterScopeLock ==
    /\ threads.main.pc = "running"
    /\ threads.controller.pc = "idle"
    /\ locks.scope = {}
    /\ locks' = [locks EXCEPT !.scope = @ \cup {"controller"}]
    /\ threads' = [threads EXCEPT !.controller.pc = "meter_scope"]
    /\ op' = [name |-> "lock scope", arg |-> "controller", before |-> locks.scope]
    /\ UNCHANGED <<gen, clock, obs, word, resampler, mpx, ring, atomics, seen,
                 wav, twin, rx>>

\* audio_io.rs:821: the buffer is copied and the guard dropped at the end of
\* the statement
MeterScopeCopy ==
    /\ threads.controller.pc = "meter_scope"
    /\ locks' = [locks EXCEPT !.scope = @ \ {"controller"}]
    /\ threads' = [threads EXCEPT !.controller.pc = "idle"]
    /\ op' = [name |-> "unlock scope", arg |-> "controller", before |-> locks.scope]
    /\ UNCHANGED <<gen, clock, obs, word, resampler, mpx, ring, atomics, seen,
                 wav, twin, rx>>

NextMeter ==
    \/ \E c \in ResamplerConfigs : StartEngine(c)
    \/ \E frames \in OutFrames : OutputEnter(frames, MaxMeterCalls)
    \/ OutputLock
    \/ OutputPop
    \/ OutputXrun
    \/ OutputEmit
    \/ OutputReturn
    \/ MeterScopeLock
    \/ MeterScopeCopy

SpecMeter == Init /\ [][NextMeter]_vars

\* the output callback has written its last frame and is at the scope update
AtScopeUpdate ==
    /\ threads.output.pc = "loop"
    /\ threads.output.index + OutputChannels > threads.output.len

\* C21: when the scope mutex is held by another thread as the output
\* callback reaches the scope update, the callback goes on (skipping the
\* update) without waiting for the mutex.
C21_SkipOnContention ==
    (AtScopeUpdate /\ locks.scope # {}) => ENABLED OutputReturn

\* a frame that came from the ring
IsCaptured(f) == f # SILENT_FRAME

\* the frames of s that came from the ring, in order
CapturedOf(s) == SelectSeq(s, IsCaptured)

\* C22: the frames popped by the output callback followed by the frames
\* still in the ring are the frames the ring accepted, in the order
\* pushed (so each is popped at most once, in order, and a frame dropped on
\* overrun is never popped); the ticks are computed on the frames in the
\* order pulled, each frame pulled feeding one tick.
C22_RingFifo ==
    /\ seen.pushed = CapturedOf(seen.pulled) \o ring
    /\ \A i, j \in 1..Len(seen.pushed) :
           i < j => seen.pushed[i].left < seen.pushed[j].left
    /\ Len(seen.pushed) = seen.captured - seen.overruns
    /\ seen.pulled = IF InFetch THEN Append(seen.fed, threads.output.frame)
                     ELSE seen.fed
    /\ gen.sample_ticks = Len(seen.fed)

\* two frames were accepted and a third dropped at the full ring; the two
\* have been popped and fed to ticks in the order pushed
C22_Witness ==
    /\ op.name = "fetch"
    /\ seen.overruns = 1
    /\ seen.captured = 3
    /\ CapturedOf(seen.fed) = <<CapturedFrame(1), CapturedFrame(2)>>
    /\ ring = <<>>

(***************************************************************************)
(* generate_mpx_wav called with a duration and no audio file.              *)
(***************************************************************************)
\* 0.0; 2^-20, too short for one sample; the f32 nearest to 0.005 (1140
\* samples, less than a chunk), to 0.01 (2280 samples), to 4096 / 228000
\* (two whole chunks) and to 0.02 (4560 samples); -1.0
Durations ==
    {FLOAT_ZERO,
     [neg |-> FALSE, m |-> 1, e |-> -20],
     [neg |-> FALSE, m |-> 5368709, e |-> -30],
     [neg |-> FALSE, m |-> 5368709, e |-> -29],
     [neg |-> FALSE, m |-> 9644839, e |-> -29],
     [neg |-> FALSE, m |-> 5368709, e |-> -28],
     [neg |-> TRUE, m |-> 1, e |-> 0]}

\* wav_writer.rs:59-103: the generator configured, the total computed and
\* the writer created
WavStart(d, c) ==
    /\ wav.pc = "start"
    /\ gen' = configure_wav(gen, c)
    /\ wav' = [wav EXCEPT !.pc = "loop", !.duration = d, !.total = total_samples(d)]
    /\ op' = [name |-> "generate_mpx_wav", arg |-> d, before |-> <<>>]
    /\ UNCHANGED <<clock, obs, word, audio, twin, rx>>

\* wav_writer.rs:106-110: one more chunk is generated
WavChunk ==
    /\ wav.pc = "loop"
    /\ wav.generated < wav.total
    /\ \E n \in {Min(wav.total - wav.generated, CHUNK_SIZE)} :
          /\ \E r \in {get_rds_samples(gen, clock, n)} :
                /\ gen' = r.gen
                /\ obs' = ObserveAll(obs, r.events)
          /\ wav' = [wav EXCEPT !.pc = "write", !.len = n, !.i = 0,
                                !.longest = Max(@, n)]
          /\ op' = [name |-> "get_samples", arg |-> n, before |-> wav.generated]
    /\ UNCHANGED <<clock, word, audio, twin, rx>>

\* wav_writer.rs:112-123: one sample of the chunk is written
WavWriteSample ==
    /\ wav.pc = "write"
    /\ wav.i < wav.len
    /\ wav' = [wav EXCEPT !.i = @ + 1, !.written = @ + 1]
    /\ op' = [name |-> "write_sample", arg |-> wav.i, before |-> wav.written]
    /\ UNCHANGED <<gen, clock, obs, word, audio, twin, rx>>

\* wav_writer.rs:126-127: the chunk is counted and progress is called
WavProgress ==
    /\ wav.pc = "write"
    /\ wav.i >= wav.len
    /\ \E f \in {float_quot(wav.generated + wav.len, wav.total)} :
          /\ wav' = [wav EXCEPT !.pc = "loop", !.generated = @ + wav.len,
                                !.calls = @ + 1, !.prev = wav.fraction,
                                !.fraction = f,
                                !.increasing = @ /\ (wav.calls = 0
                                                     \/ float_lt(wav.fraction, f))]
          /\ op' = [name |-> "progress", arg |-> f, before |-> wav.fraction]
    /\ UNCHANGED <<gen, clock, obs, word, audio, twin, rx>>

\* wav_writer.rs:105 and 130-131: the loop ends and the file is finalised
WavFinish ==
    /\ wav.pc = "loop"
    /\ wav.generated >= wav.total
    /\ wav' = [wav EXCEPT !.pc = "done"]
    /\ op' = [name |-> "finalize", arg |-> wav.written, before |-> <<>>]
    /\ UNCHANGED <<gen, clock, obs, word, audio, twin, rx>>

NextWav ==
    \/ \E d \in Durations, c \in EngineConfigs : WavStart(d, c)
    \/ WavChunk
    \/ WavWriteSample
    \/ WavProgress
    \/ WavFinish

SpecWav == Init /\ [][NextWav]_vars

\* floor(d * 228000) in exact arithmetic, for d >= 0 or d a negative integer
FloorProduct(d) ==
    (IF d.neg THEN -1 ELSE 1)
        * wide_floor(wide_mul(d.m, MPX_SAMPLE_RATE \div 32), -(5 + d.e))

\* ceil(n / CHUNK_SIZE)
Chunks(n) == (n + CHUNK_SIZE - 1) \div CHUNK_SIZE

\* the f32 nearest to 0.01
Duration_0_01 == [neg |-> FALSE, m |-> 5368709, e |-> -29]

WavInv ==
    /\ wav.pc # "start" =>
           /\ wav.total = total_samples(wav.duration)
           /\ wav.duration = Duration_0_01 => wav.total = 2280
           /\ wav.duration.neg => wav.total = 0
    /\ wav.written = wav.generated + (IF wav.pc = "write" THEN wav.i ELSE 0)
    /\ wav.generated + (IF wav.pc = "write" THEN wav.len ELSE 0) <= wav.total
    /\ wav.longest <= CHUNK_SIZE
    /\ wav.calls = Chunks(wav.generated)
    /\ wav.increasing
    /\ wav.calls > 0 =>
           /\ wav.fraction.m > 0
           /\ ~float_lt(FLOAT_ONE, wav.fraction)
           /\ float_norm(wav.fraction) = FLOAT_ONE <=> wav.generated = wav.total
    /\ wav.pc = "done" =>
           /\ wav.written = wav.total
           /\ wav.calls = Chunks(wav.total)
           /\ wav.total = 0 => wav.written = 0 /\ wav.calls = 0

\* the steps generate_mpx_wav has still to take: a bound that is never
\* negative and that every step lowers
WavVariant ==
    IF wav.pc = "start" THEN 2 ^ 30
    ELSE (wav.total - wav.written) + 2 * (Chunks(wav.total) - wav.calls)
             + (IF wav.pc = "loop" THEN 1 ELSE 0)

MaxTwinCalls == 4
MaxTwinSets == 2
MaxTwinTicks == 20000

\* buffer sizes of the first generator: one sample, a third of a group
\* period (34 bit periods and two thirds)
FirstSizes == {1, 6656}

\* buffer sizes of the second: a third of a group period less one sample and
\* plus one sample
TwinSizes == {6655, 6657}

TwinCalls ==
    {[name |-> "set_ct_enabled", arg |-> <<FALSE>>],
     [name |-> "set_rt", arg |-> <<TextOf(2, 1)>>]}

\* the setter call c made on the generator g
twin_apply(g, c) ==
    CASE c.name = "set_ct_enabled" -> set_ct_enabled(g, c.arg[1])
      [] c.name = "set_rt" -> set_rt(g, c.arg[1])
      [] c.name = "set_group_mix" -> set_group_mix(g, c.arg[1], c.arg[2], c.arg[3])

\* a clock-time group can be sent: CT enabled, a periodic interval, or a 4A
\* entry in the cycle
ct_involved(g) ==
    \/ g.params.ct_enabled
    \/ g.ct_interval_groups > 0
    \/ \E k \in 1..Len(g.group_cycle) : g.group_cycle[k] = 4

\* the bits taken (rds.rs:480) during the events, buffer being the bit buffer
\* before them
RECURSIVE emitted_bits(_, _, _)
emitted_bits(buffer, events, acc) ==
    IF events = <<>> THEN acc
    ELSE IF Head(events).ev = "group"
    THEN emitted_bits(encode_group(Head(events).blocks), Tail(events), acc)
    ELSE emitted_bits(buffer, Tail(events), Append(acc, buffer[Head(events).pos + 1]))

\* the same setter call on both generators, which have produced the same
\* number of samples
TwinSet(c) ==
    /\ twin.sets < MaxTwinSets
    /\ gen.sample_ticks = twin.gen.sample_ticks
    /\ gen' = twin_apply(gen, c)
    /\ twin' = [twin EXCEPT !.gen = twin_apply(@, c), !.sets = @ + 1]
    /\ op' = [name |-> c.name, arg |-> c.arg, before |-> <<>>]
    /\ UNCHANGED <<clock, obs, word, audio, wav, rx>>

\* get_rds_samples on the first generator.  The generators do not interact:
\* the one that has produced fewer samples is the one called next
FirstSamples(n) ==
    /\ twin.first_calls < MaxTwinCalls
    /\ gen.sample_ticks <= twin.gen.sample_ticks
    /\ gen.sample_ticks + n <= MaxTwinTicks
    /\ \E r \in {get_rds_samples(gen, clock, n)} :
          /\ gen' = r.gen
          /\ obs' = ObserveAll(obs, r.events)
          /\ twin' = [twin EXCEPT
                         !.first_bits = emitted_bits(gen.bit_buffer, r.events, @),
                         !.first_calls = @ + 1,
                         !.ct_free = @ /\ ~ct_involved(gen)]
    /\ op' = [name |-> "get_rds_samples", arg |-> n, before |-> <<>>]
    /\ UNCHANGED <<clock, word, audio, wav, rx>>

\* get_rds_samples on the second generator
TwinSamples(n) ==
    /\ twin.calls < MaxTwinCalls
    /\ twin.gen.sample_ticks < gen.sample_ticks
    /\ twin.gen.sample_ticks + n <= MaxTwinTicks
    /\ \E r \in {get_rds_samples(twin.gen, twin.clock, n)} :
          twin' = [twin EXCEPT !.gen = r.gen,
                               !.bits = emitted_bits(twin.gen.bit_buffer, r.events, @),
                               !.calls = @ + 1,
                               !.ct_free = @ /\ ~ct_involved(twin.gen)]
    /\ op' = [name |-> "twin.get_rds_samples", arg |-> n, before |-> <<>>]
    /\ UNCHANGED <<gen, clock, obs, word, audio, wav, rx>>

NextTwin ==
    \/ \E c \in TwinCalls : TwinSet(c)
    \/ \E n \in FirstSizes : FirstSamples(n)
    \/ \E n \in TwinSizes : TwinSamples(n)

SpecTwin == Init /\ [][NextTwin]_vars

GroupEmitted == op'.name = "get_rds_samples" /\ obs'.n_groups = obs.n_groups + 1

\* the periodic interval inserts a clock-time group in the next group
PeriodicDue(g) == g.ct_interval_groups > 0 /\ g.ct_counter + 1 >= g.ct_interval_groups

\* the minute has changed since the last minute-triggered clock-time group
MinuteDue(g, clk) == g.params.ct_enabled /\ clk.minute # g.latest_minutes

\* the entry of the group cycle at the index
CycleEntry(g) == g.group_cycle[(g.group_index % Len(g.group_cycle)) + 1]

\* the next group is taken from the group cycle
FromCycle(g, clk) == ~PeriodicDue(g) /\ ~MinuteDue(g, clk)

\* block C of a 0A group sent with the AF stream at af_pos
AfPair(g) ==
    IF g.params.af_stream = <<>> THEN 52685
    ELSE g.params.af_stream[(g.af_pos % Len(g.params.af_stream)) + 1] * 256
             + g.params.af_stream[((g.af_pos + 1) % Len(g.params.af_stream)) + 1]

\* C25: a group taken from a cycle entry 0 (no clock-time group pre-empting)
\* is a filled 0A group: block C is the next AF pair or 0xCDCD, block D the
\* two PS characters of the segment, ps_state advances by one; no group has
\* blocks B, C and D all zero.
C25_EntryZeroFilled ==
    [][GroupEmitted =>
        /\ (FromCycle(gen, clock) /\ CycleEntry(gen) = 0) =>
              /\ obs'.last[3] = AfPair(gen)
              /\ obs'.last[4] = gen'.params.ps[2 * gen.ps_state + 1] * 256
                                    + gen'.params.ps[2 * gen.ps_state + 2]
              /\ gen'.ps_state = (gen.ps_state + 1) % 4
        /\ <<obs'.last[2], obs'.last[3], obs'.last[4]>> # <<0, 0, 0>>]_vars

\* C26 as stated: group_index advances by one (modulo the cycle length) with
\* every group emitted, clock-time groups inserted by the periodic interval
\* or by the minute change included.
C26_AdvancesWithEveryGroup ==
    [][GroupEmitted =>
          gen'.group_index = (gen.group_index + 1) % Len(gen.group_cycle)]_vars

\* C26: group_index advances by one (modulo the cycle length) with every
\* group taken from the group cycle, and stays where it is when the group is
\* a clock-time group inserted by the periodic interval or by the minute
\* change; the cycle itself is left as it was.
C26_AdvancesWithCycleGroups ==
    [][GroupEmitted =>
          /\ gen'.group_cycle = gen.group_cycle
          /\ gen'.group_index =
                IF FromCycle(gen, clock)
                THEN (gen.group_index + 1) % Len(gen.group_cycle)
                ELSE gen.group_index]_vars

\* three groups after set_ct_interval_groups(2): the clock-time group of the
\* first minute, the periodic clock-time group, and one group from the cycle;
\* group_index has moved once
C26_Witness ==
    /\ op.name = "get_rds_samples"
    /\ obs.armed
    /\ gen.ct_interval_groups = 2
    /\ obs.kinds = <<"4A", "4A", "0A">>
    /\ gen.latest_minutes = clock.minute
    /\ gen.ct_counter = 1
    /\ gen.group_index = 1

\* C27: after set_group_mix(a, b, c) the group cycle is max(a, 1) entries 0,
\* then b entries 2, then c entries 4; with b = 0 it has no entry 2.
C27_CycleAsCounted ==
    op.name = "set_group_mix" =>
        /\ gen.group_cycle = Repeat(0, Max(op.arg[1], 1)) \o Repeat(2, op.arg[2])
                                 \o Repeat(4, op.arg[3])
        /\ op.arg[2] = 0 => Count(gen.group_cycle, 2) = 0

\* C28: with CT enabled and no periodic interval, the group emitted is a
\* minute-triggered clock-time group (a 4A group carrying the current minute,
\* sent without taking an entry from the cycle) exactly when the UTC minute
\* differs from latest_minutes, the minute recorded at the last one; the
\* minute is recorded with it, and while the minute stays the same every
\* group is taken from the cycle and the record is left alone.
C28_MinuteTriggered ==
    [][(GroupEmitted /\ gen.params.ct_enabled /\ gen.ct_interval_groups = 0) =>
          IF clock.minute # gen.latest_minutes
          THEN /\ Shr(obs'.last[2], 12) = 4
               /\ Shr(obs'.last[4], 6) % 64 = clock.minute
               /\ gen'.latest_minutes = clock.minute
               /\ gen'.group_index = gen.group_index
               /\ gen'.state = gen.state
          ELSE /\ gen'.latest_minutes = gen.latest_minutes
               /\ gen'.group_index = (gen.group_index + 1) % Len(gen.group_cycle)
               /\ Shr(obs'.last[2], 12) = 4 => CycleEntry(gen) = 4]_vars

\* four groups with the default cycle: the clock-time group of the first
\* minute, a 0A group, the clock-time group of the next minute and a 0A group
C28_Witness ==
    /\ op.name = "get_rds_samples"
    /\ gen.params.ct_enabled
    /\ gen.ct_interval_groups = 0
    /\ gen.group_cycle = RdsGenerator_new.group_cycle
    /\ obs.n_groups = 4
    /\ Elapsed(clock) = 1
    /\ gen.latest_minutes = clock.minute
    /\ gen.group_index = 2
    /\ Shr(obs.last[2], 12) = 0

(***************************************************************************)
(* The blocks of the 0A and 2A groups.  The flags, the programme type, the *)
(* decoder information, the RadioText and the group mix are set, with      *)
(* arguments beyond the width of their fields too, while at most           *)
(* MaxBlockPre groups have been emitted; a receiver collects the RadioText *)
(* segments.                                                               *)
(***************************************************************************)
MaxBlockGroups == 27
MaxBlockSets == 2
MaxBlockPre == 3

BlockCalls ==
    {[name |-> "set_tp", arg |-> <<TRUE>>],
     [name |-> "set_pty", arg |-> <<31>>],
     [name |-> "set_pty", arg |-> <<200>>],
     [name |-> "set_ta", arg |-> <<TRUE>>],
     [name |-> "set_ms", arg |-> <<FALSE>>],
     [name |-> "set_di", arg |-> <<5>>],
     [name |-> "set_di", arg |-> <<255>>],
     [name |-> "set_rt", arg |-> <<TextOf(RT_LENGTH, 1)>>],
     [name |-> "set_rt_ab", arg |-> <<TRUE>>],
     [name |-> "set_group_mix", arg |-> <<1, 2, 0>>]}

\* the setter call c made on the generator g
block_apply(g, c) ==
    CASE c.name = "set_tp" -> set_tp(g, c.arg[1])
      [] c.name = "set_pty" -> set_pty(g, c.arg[1])
      [] c.name = "set_ta" -> set_ta(g, c.arg[1])
      [] c.name = "set_ms" -> set_ms(g, c.arg[1])
      [] c.name = "set_di" -> set_di(g, c.arg[1])
      [] c.name = "set_rt" -> set_rt(g, c.arg[1])
      [] c.name = "set_rt_ab" -> set_rt_ab(g, c.arg[1])
      [] c.name = "set_group_mix" -> set_group_mix(g, c.arg[1], c.arg[2], c.arg[3])

\* a setter call; the receiver starts anew when the RT buffer has changed
BlockCall(c) ==
    /\ obs.n_groups <= MaxBlockPre
    /\ rx.sets < MaxBlockSets
    /\ \E g \in {block_apply(gen, c)} :
          /\ gen' = g
          /\ rx' = [rx EXCEPT !.sets = @ + 1,
                              !.segments = IF g.params.rt = gen.params.rt
                                           THEN @ ELSE <<>>]
    /\ op' = [name |-> c.name, arg |-> c.arg, before |-> <<>>]
    /\ UNCHANGED <<clock, obs, word, audio, wav, twin>>

\* what the receiver holds after a group with the blocks given
received(r, blocks) ==
    IF Shr(blocks[2], 12) = 2
    THEN [r EXCEPT
              !.segments =
                  LastN(Append(@, [addr |-> BitAnd(blocks[2], 15),
                                   bytes |-> <<Shr(blocks[3], 8), blocks[3] % 256,
                                               Shr(blocks[4], 8), blocks[4] % 256>>]),
                        16),
              !.last_addr = BitAnd(blocks[2], 15)]
    ELSE r

\* one group period, the group being received
BlockGroup ==
    /\ obs.n_groups < MaxBlockGroups
    /\ bit_due(gen) /\ group_due(gen)
    /\ ~gen.ps_scroll.some /\ ~gen.rt_scroll.some
    /\ \E r \in {group_period(gen, clock)} :
          /\ gen' = r.gen
          /\ obs' = ObservePeriod(obs, r.events)
          /\ rx' = received(rx, r.events[1].blocks)
    /\ op' = [name |-> "get_rds_samples",
              arg |-> BITS_PER_GROUP * SAMPLES_PER_BIT, before |-> rx.last_addr]
    /\ UNCHANGED <<clock, word, audio, wav, twin>>

NextBlocks ==
    \/ \E c \in BlockCalls : BlockCall(c)
    \/ BlockGroup

SpecBlocks == Init /\ [][NextBlocks]_vars

\* C29: in every 0A group (type code 0, version A) block B is
\* TP<<10 | PTY<<5 | TA<<4 | MS<<3 | DI_bit<<2 | s, s being the two low bits
\* and DI_bit bit (3 - s) of the DI nibble; PTY is at most 31 and DI at most
\* 15 whatever the setters were given.
C29_BlockB ==
    /\ gen.params.pty <= 31
    /\ gen.params.di <= 15
    /\ (op.name = "get_rds_samples" /\ Is0A(obs.last)) =>
          LET s == obs.last[2] % 4
          IN  obs.last[2] = B2N(gen.params.tp) * 1024 + gen.params.pty * 32
                                + B2N(gen.params.ta) * 16 + B2N(gen.params.ms) * 8
                                + ((gen.params.di \div (2 ^ (3 - s))) % 2) * 4 + s

\* the four RT bytes of segment s
RtSegment(s) == SubSeq(gen.params.rt, 4 * s + 1, 4 * s + 4)

\* C30: every 2A group has block B = 2<<12 | TP<<10 | PTY<<5 | AB<<4 | s with
\* s in 0..15, and blocks C and D carry rt[4s], ..., rt[4s+3]; the address of
\* a 2A group is one more (modulo 16) than that of the 2A group before it;
\* 16 consecutive 2A groups with the RT buffer unchanged carry the 16
\* segments, and so the 64 bytes, each exactly once.
C30_RadioText ==
    /\ (op.name = "get_rds_samples" /\ Shr(obs.last[2], 12) = 2) =>
          LET s == obs.last[2] % 16
          IN  /\ obs.last[2] = 2 * 4096 + B2N(gen.params.tp) * 1024
                                   + gen.params.pty * 32 + B2N(gen.params.ab) * 16 + s
              /\ <<Shr(obs.last[3], 8), obs.last[3] % 256,
                   Shr(obs.last[4], 8), obs.last[4] % 256>> = RtSegment(s)
              /\ op.before # -1 => s = (op.before + 1) % 16
              /\ rx.last_addr = s
    /\ \A i \in 1..Len(rx.segments) :
          /\ rx.segments[i].addr = (rx.segments[1].addr + i - 1) % 16
          /\ rx.segments[i].bytes = RtSegment(rx.segments[i].addr)
    /\ Len(rx.segments) = 16 =>
          \A s \in 0..15 :
              Cardinality({i \in 1..16 : rx.segments[i].addr = s}) = 1

\* sixteen 2A groups received since the text was set after the first 2A
\* group: the segments 1, 2, ..., 15, 0
C30_Witness ==
    /\ op.name = "get_rds_samples"
    /\ Shr(obs.last[2], 12) = 2
    /\ gen.params.rt = fill_rds_string([k \in 1..RT_LENGTH |-> 0], TextOf(RT_LENGTH, 1))
    /\ Len(rx.segments) = 16
    /\ rx.segments[1].addr = 1
    /\ rx.segments[16].addr = 0
    /\ rx.segments[1].bytes # rx.segments[2].bytes


(***************************************************************************)
(* The position in the AF stream, under set_af_list_mhz calls and group    *)
(* emissions in any order (SpecAf).                                        *)
(***************************************************************************)
\* the position addresses a whole pair of the stream
AfPosInv ==
    gen.params.af_stream # <<>> =>
        /\ gen.af_pos % 2 = 0
        /\ gen.af_pos < Len(gen.params.af_stream)
        /\ gen.af_pos + 1 < Len(gen.params.af_stream)

\* C31: when the AF stream is non-empty the AF position is even and smaller
\* than the stream length in every state; a 0A group sent at position p has
\* block C = (stream[p] << 8) | stream[p + 1] and leaves the position at
\* (p + 2) mod length; the header byte (stream[0]) is therefore only sent as
\* the high byte of a block C.
C31_AfPosition ==
    /\ [](AfPosInv)
    /\ [][(GroupEmitted /\ Is0A(obs'.last) /\ gen.params.af_stream # <<>>) =>
            /\ obs'.last[3] = gen.params.af_stream[gen.af_pos + 1] * 256
                                  + gen.params.af_stream[gen.af_pos + 2]
            /\ gen'.af_pos = (gen.af_pos + 2) % Len(gen.params.af_stream)
            /\ (gen.af_pos = 0) =
                   (Shr(obs'.last[3], 8) = gen.params.af_stream[1])
            /\ obs'.last[3] % 256 # gen.params.af_stream[1]]_vars

\* a 0A group has sent the last pair of a four-byte stream and the position
\* has wrapped to the header
C31_Witness ==
    /\ op.name = "get_rds_samples"
    /\ Is0A(obs.last)
    /\ Len(gen.params.af_stream) = 4
    /\ gen.af_pos = 0
    /\ obs.last[3] = gen.params.af_stream[3] * 256 + gen.params.af_stream[4]


(***************************************************************************)
(* The limiter of LiveMpx::next_sample with its sample values              *)
(* (audio_io.rs:377-400).  An f32 is [neg, m, e] with the value m * 2^e,   *)
(* m = 0 or 2^23 <= m < 2^24; infinities, NaN and subnormal numbers are    *)
(* not among the values used.                                              *)
(***************************************************************************)
\* n / 2^k as f32, for 0 <= n < 2^24
float_of(neg, n, k) ==
    IF n = 0 THEN [neg |-> neg, m |-> 0, e |-> 0]
    ELSE [neg |-> neg, m |-> ShiftTo(n, 2 ^ 23, 0).g, e |-> -k - ShiftTo(n, 2 ^ 23, 0).k]

\* the literal 0.1f32 (audio_io.rs:377)
FLOAT_TENTH == [neg |-> FALSE, m |-> 13421773, e |-> -27]

\* the f32 nearest to 0.95, the default threshold (app.rs:366)
FLOAT_0_95 == [neg |-> FALSE, m |-> 15938355, e |-> -24]

\* x * y in f32: the 48-bit product of the significands from 12-bit limbs,
\* H its upper and L its lower 24 bits, rounded to nearest, ties to even
float_mul_limbs(H, L) ==
    IF H >= 2 ^ 23 THEN [m |-> Rne(H, L, 2 ^ 24), e |-> 24]
    ELSE [m |-> Rne(2 * H + L \div 2 ^ 23, L % 2 ^ 23, 2 ^ 23), e |-> 23]

float_mul(x, y) ==
    IF x.m = 0 \/ y.m = 0 THEN [neg |-> x.neg # y.neg, m |-> 0, e |-> 0]
    ELSE LET x1 == x.m \div 4096
             x0 == x.m % 4096
             y1 == y.m \div 4096
             y0 == y.m % 4096
             mid == x1 * y0 + x0 * y1
             low == (mid % 4096) * 4096 + x0 * y0
             p == float_mul_limbs(x1 * y1 + mid \div 4096 + low \div 2 ^ 24,
                                  low % 2 ^ 24)
         IN  float_norm([neg |-> x.neg # y.neg, m |-> p.m, e |-> x.e + y.e + p.e])

\* x / y in f32 for x, y # 0, rounded to nearest, ties to even
float_div(x, y) ==
    IF x.m >= y.m
    THEN LET d == ScaledDiv(x.m - y.m, y.m, 23)
         IN  float_norm([neg |-> x.neg # y.neg, m |-> Rne(2 ^ 23 + d.q, d.r, y.m),
                         e |-> x.e - y.e - 23])
    ELSE LET d == ScaledDiv(x.m, y.m, 24)
         IN  float_norm([neg |-> x.neg # y.neg, m |-> Rne(d.q, d.r, y.m),
                         e |-> x.e - y.e - 24])

\* f32::abs
float_abs(x) == [x EXCEPT !.neg = FALSE]

\* |x| > |y|
float_mag_gt(x, y) ==
    IF x.m = 0 THEN FALSE
    ELSE IF y.m = 0 THEN TRUE
    ELSE float_lt(y, x)

\* f32::max of two non-negative numbers
float_max(x, y) == IF float_mag_gt(y, x) THEN y ELSE x

\* audio_io.rs:386-392: the largest magnitude in the FIFO
RECURSIVE limiter_peak(_, _, _)
limiter_peak(buffer, i, max) ==
    IF i > Len(buffer) THEN max
    ELSE limiter_peak(buffer, i + 1,
                      IF float_mag_gt(buffer[i], max) THEN float_abs(buffer[i]) ELSE max)

\* audio_io.rs:393-394
limiter_gain(m) ==
    LET max == limiter_peak(m.limiter_buffer, 1, FLOAT_ZERO)
        threshold == float_max(m.limiter_threshold, FLOAT_TENTH)
    IN  IF float_mag_gt(max, threshold) THEN float_div(threshold, max) ELSE FLOAT_ONE


\* audio_io.rs:377: mpx * 0.1 * self.gain
scaled(m, x) == float_mul(float_mul(x, FLOAT_TENTH), m.gain)

\* audio_io.rs:378-400: the sample returned for the scaled sample out, gain
\* being the limiter gain applied to it (1 where none is)
limited(m, out) ==
    LET r == limiter(m, out)
    IN  IF ~m.limiter_enabled THEN [mpx |-> m, out |-> out, gain |-> FLOAT_ONE]
        ELSE IF Len(r.mpx.limiter_buffer) < m.limiter_lookahead
        THEN [mpx |-> r.mpx, out |-> FLOAT_ZERO, gain |-> FLOAT_ONE]
        ELSE [mpx |-> r.mpx, out |-> float_mul(r.out, limiter_gain(r.mpx)),
              gain |-> limiter_gain(r.mpx)]

(***************************************************************************)
(* LiveMpx under set_gain, set_limiter, set_limiter_lookahead and          *)
(* next_sample in any order.  The composite sample before scaling is the   *)
(* input of next_sample here.  seen records the calls: ticks, the calls of *)
(* next_sample; inputs, the scaled sample of each; labels, for each sample *)
(* in the FIFO the call that pushed it; since and off, the calls since the *)
(* FIFO was last cleared and those of them made with the limiter disabled; *)
(* out, src and gain, the sample last returned, the call that pushed it    *)
(* (0 for the silence of a priming call) and the limiter gain applied.     *)
(***************************************************************************)
MaxLimTicks == 5
MaxLimSets == 2

LimLookaheads == {2, 3}

LimInputs == {float_of(FALSE, 4, 0), float_of(TRUE, 105, 3)}

LimCalls ==
    {[name |-> "update_limiter", arg |-> <<FALSE, FLOAT_0_95>>],
     [name |-> "update_limiter", arg |-> <<TRUE, FLOAT_0_95>>],
     [name |-> "update_limiter", arg |-> <<TRUE, float_of(FALSE, 1, 5)>>],
     [name |-> "update_limiter_lookahead", arg |-> <<1>>],
     [name |-> "update_gain", arg |-> <<float_of(FALSE, 2, 0)>>]}

LimSeen0 ==
    [ticks |-> 0, sets |-> 0, inputs |-> <<>>, labels |-> <<>>, since |-> 0, off |-> 0,
     out |-> FLOAT_ZERO, src |-> 0, gain |-> FLOAT_ONE]

\* LiveMpx::new and the look-ahead of the configuration (audio_io.rs:147-178,
\* 258-261)
InitLimiter ==
    /\ gen = RdsGenerator_new
    /\ clock = Clock0
    /\ op = NoCall
    /\ obs = Obs0
    /\ word = 0
    /\ resampler = OutputResampler_new(INTERNAL_SAMPLE_RATE, OUTPUT_SAMPLE_RATE)
    /\ \E n \in LimLookaheads :
          mpx = set_limiter_lookahead([LiveMpx_new EXCEPT !.gain = FLOAT_ONE,
                                           !.limiter_threshold = FLOAT_0_95], n)
    /\ ring = <<>>
    /\ atomics = [xrun_count |-> u32(0), buffer_fill |-> u32(0)]
    /\ locks = [shared |-> {}, scope |-> {}]
    /\ threads = Threads0
    /\ seen = LimSeen0
    /\ wav = Wav0
    /\ twin = Twin0
    /\ rx = Rx0

\* set_gain, set_limiter or set_limiter_lookahead (audio_io.rs:249-261)
LimSet(c) ==
    /\ seen.sets < MaxLimSets
    /\ mpx' = apply_call(mpx, gen, c).mpx
    /\ seen' = IF c.name = "update_limiter_lookahead"
               THEN [seen EXCEPT !.sets = @ + 1, !.labels = <<>>, !.since = 0, !.off = 0]
               ELSE [seen EXCEPT !.sets = @ + 1]
    /\ op' = [name |-> "set", arg |-> c, before |-> <<>>]
    /\ UNCHANGED <<gen, clock, obs, word, resampler, ring, atomics, locks, threads,
                 wav, twin, rx>>

\* next_sample with the composite sample x (audio_io.rs:377-400)
LimNextSample(x) ==
    /\ seen.ticks < MaxLimTicks
    /\ \E r \in {limited(mpx, scaled(mpx, x))} :
          /\ mpx' = r.mpx
          /\ seen' = [seen EXCEPT
                 !.ticks = @ + 1,
                 !.inputs = Append(@, scaled(mpx, x)),
                 !.labels = limiter([mpx EXCEPT !.limiter_buffer = seen.labels],
                                    seen.ticks + 1).mpx.limiter_buffer,
                 !.since = @ + 1,
                 !.off = IF mpx.limiter_enabled THEN @ ELSE @ + 1,
                 !.out = r.out,
                 !.src = limiter([mpx EXCEPT !.limiter_buffer = seen.labels],
                                 seen.ticks + 1).out,
                 !.gain = r.gain]
    /\ op' = [name |-> "next_sample", arg |-> x, before |-> <<>>]
    /\ UNCHANGED <<gen, clock, obs, word, resampler, ring, atomics, locks, threads,
                 wav, twin, rx>>

NextLimiter ==
    \/ \E c \in LimCalls : LimSet(c)
    \/ \E x \in LimInputs : LimNextSample(x)

SpecLimiter == InitLimiter /\ [][NextLimiter]_vars

\* C32: with the limiter enabled since the FIFO was cleared and a look-ahead
\* of n, the first n - 1 calls of next_sample return 0; from the n-th call on
\* each call returns the front of the FIFO, which is the scaled input of the
\* call n - 1 ticks earlier, times a gain of at most 1.
C32_PrimingThenDelay ==
    (op.name = "next_sample" /\ mpx.limiter_enabled /\ seen.off = 0) =>
        IF seen.since < mpx.limiter_lookahead
        THEN seen.out = FLOAT_ZERO /\ seen.src = 0
        ELSE /\ seen.src = seen.ticks - (mpx.limiter_lookahead - 1)
             /\ mpx.limiter_buffer[1] = seen.inputs[seen.src]
             /\ seen.out = float_mul(seen.inputs[seen.src], seen.gain)
             /\ ~float_mag_gt(seen.gain, FLOAT_ONE)

\* the third call after the FIFO was cleared returns, with a look-ahead of 3,
\* the scaled input of the first call, reduced by the limiter
C32_Witness ==
    /\ op.name = "next_sample"
    /\ mpx.limiter_enabled
    /\ mpx.limiter_lookahead = 3
    /\ seen.off = 0
    /\ seen.since = 3
    /\ seen.src = 1
    /\ float_mag_gt(FLOAT_ONE, seen.gain)
    /\ seen.out = float_mul(seen.inputs[1], seen.gain)
    /\ seen.out # FLOAT_ZERO


\* C33: with the limiter enabled, the magnitude of every sample returned by
\* next_sample is at most max(limiter_threshold, 0.1).
C33_LimiterBound ==
    (op.name = "next_sample" /\ mpx.limiter_enabled) =>
        ~float_mag_gt(seen.out, float_max(mpx.limiter_threshold, FLOAT_TENTH))

\* C40: every non-priming sample returned while the limiter is enabled was
\* pushed limiter_lookahead - 1 calls earlier, whatever calls of set_limiter
\* and set_limiter_lookahead came before; none is older.
C40_NoStaleSample ==
    (op.name = "next_sample" /\ mpx.limiter_enabled /\ seen.src # 0) =>
        seen.src = seen.ticks - (mpx.limiter_lookahead - 1)


(***************************************************************************)
(* The alternate PS names: set_ps_alternates and set_ps called between the *)
(* groups, with the default group cycle.                                   *)
(***************************************************************************)
MaxAltGroups == 7

AltLists ==
    {<<>>, <<TextOf(3, 1)>>, <<TextOf(PS_LENGTH, 1), TextOf(4, 2)>>,
     <<TextOf(2, 1), TextOf(2, 2), TextOf(2, 3)>>}

AltIntervals == {0, 1, 2}

SetPsAlternates(list, interval_groups) ==
    /\ gen' = set_ps_alternates(gen, list, interval_groups)
    /\ op' = [name |-> "set_ps_alternates", arg |-> <<list, interval_groups>>,
              before |-> <<>>]
    /\ UNCHANGED <<clock, obs, word, audio, wav, twin, rx>>

NextAlt ==
    \/ \E list \in AltLists, n \in AltIntervals : SetPsAlternates(list, n)
    \/ \E s \in PsNames : SetPs(s)
    \/ EmitGroup(MaxAltGroups)

SpecAlt == Init /\ [][NextAlt]_vars

\* alternates are configured
AltOn(g) == g.ps_alt_interval > 0 /\ g.ps_alt_list # <<>>

\* C34: with a non-empty list and an interval N > 0, set_ps_alternates leaves
\* counter and index at 0; every group, of any type, increments the counter;
\* the group that brings it to N resets it, advances the index by one modulo
\* the list length and rewrites the PS buffer from the entry at the new
\* index before the group is encoded (a 0A group sends two characters of the
\* new name); no other group changes the index or the PS buffer.  The
\* entries are therefore shown in cyclic order, the entry at index 1 first.
C34_PsAlternates ==
    /\ [](/\ AltOn(gen) =>
               /\ gen.ps_alt_counter < gen.ps_alt_interval
               /\ gen.ps_alt_index < Len(gen.ps_alt_list)
          /\ op.name = "set_ps_alternates" =>
               gen.ps_alt_index = 0 /\ gen.ps_alt_counter = 0)
    /\ [][(GroupEmitted /\ AltOn(gen)) =>
            IF gen.ps_alt_counter + 1 = gen.ps_alt_interval
            THEN /\ gen'.ps_alt_counter = 0
                 /\ gen'.ps_alt_index = (gen.ps_alt_index + 1) % Len(gen.ps_alt_list)
                 /\ gen'.params.ps =
                        fill_rds_string(gen.params.ps,
                                        gen.ps_alt_list[gen'.ps_alt_index + 1])
                 /\ (FromCycle(gen, clock) /\ CycleEntry(gen) = 0) =>
                        obs'.last[4] = gen'.params.ps[2 * gen.ps_state + 1] * 256
                                           + gen'.params.ps[2 * gen.ps_state + 2]
            ELSE /\ gen'.ps_alt_counter = gen.ps_alt_counter + 1
                 /\ gen'.ps_alt_index = gen.ps_alt_index
                 /\ gen'.params.ps = gen.params.ps]_vars

\* with a list of two names and an interval of 2 the index is back at 0
\* after four groups, the clock-time group among them, and the 0A group just
\* sent carries two characters of the first name
C34_Witness ==
    /\ op.name = "get_rds_samples"
    /\ Len(gen.ps_alt_list) = 2
    /\ gen.ps_alt_interval = 2
    /\ gen.ps_alt_index = 0
    /\ gen.ps_alt_counter = 0
    /\ obs.n_groups = 4
    /\ gen.params.ps = fill_rds_string(gen.params.ps, gen.ps_alt_list[1])
    /\ Is0A(obs.last)
    /\ obs.last[4] = gen.ps_alt_list[1][5] * 256 + gen.ps_alt_list[1][6]


(***************************************************************************)
(* The two composers side by side: FmMpx::get_samples (fm_mpx.rs:231-361), *)
(* one sample at a time, and LiveMpx::next_sample (audio_io.rs:292-377),   *)
(* fed the same frames.  Of a composite sample the terms are recorded, not *)
(* the value: whether the RDS sample and 4.05 * mono are added, and the    *)
(* carrier phases of the stereo term and of the pilot term (-1: the term   *)
(* is not added).  twin is the FmMpx.                                      *)
(***************************************************************************)
MaxComposeTicks == 36

ABSENT == -1

\* the audio source of FmMpx::new: none, or a file with 1 or 2 channels
AudioSources == {[some |-> FALSE, channels |-> 0], [some |-> TRUE, channels |-> 1],
                 [some |-> TRUE, channels |-> 2]}

ComposeFrames == {SILENT_FRAME, [left |-> 1, right |-> 0]}

\* FmMpx::new (fm_mpx.rs:72-124)
FmMpx_new(source) ==
    [audio |-> source.some, channels |-> source.channels,
     fir_index |-> 0, phase_38 |-> 0, phase_19 |-> 0]

\* fm_mpx.rs:232-361 for one sample: the FmMpx after it and the terms added
FmMpx_get_sample(f) ==
    IF ~f.audio
    THEN [mpx |-> f,
          terms |-> [rds |-> TRUE, mono |-> FALSE, stereo |-> ABSENT, pilot |-> ABSENT]]
    ELSE IF f.channels > 1
    THEN [mpx |-> [f EXCEPT
                     !.fir_index = IF @ + 1 >= FIR_SIZE THEN 0 ELSE @ + 1,
                     !.phase_19 = IF @ + 1 >= CARRIER_19_LEN THEN 0 ELSE @ + 1,
                     !.phase_38 = IF @ + 1 >= CARRIER_38_LEN THEN 0 ELSE @ + 1],
          terms |-> [rds |-> TRUE, mono |-> TRUE, stereo |-> f.phase_38,
                     pilot |-> f.phase_19]]
    ELSE [mpx |-> [f EXCEPT !.fir_index = IF @ + 1 >= FIR_SIZE THEN 0 ELSE @ + 1],
          terms |-> [rds |-> TRUE, mono |-> TRUE, stereo |-> ABSENT, pilot |-> ABSENT]]

\* audio_io.rs:364-367: the terms of the live composite sample
LiveMpx_terms(m) ==
    [rds |-> TRUE, mono |-> TRUE, stereo |-> m.phase_38, pilot |-> m.phase_19]

InitCompose ==
    /\ gen = RdsGenerator_new
    /\ clock = Clock0
    /\ op = NoCall
    /\ obs = Obs0
    /\ word = 0
    /\ resampler = OutputResampler_new(INTERNAL_SAMPLE_RATE, OUTPUT_SAMPLE_RATE)
    /\ mpx = LiveMpx_new
    /\ ring = <<>>
    /\ atomics = [xrun_count |-> u32(0), buffer_fill |-> u32(0)]
    /\ locks = [shared |-> {}, scope |-> {}]
    /\ threads = Threads0
    /\ seen = [ticks |-> 0, live |-> <<>>, offline |-> <<>>]
    /\ wav = Wav0
    /\ \E a \in AudioSources : twin = FmMpx_new(a)
    /\ rx = Rx0

\* both composers produce the sample of one tick from the frame
ComposeTick(frame) ==
    /\ seen.ticks < MaxComposeTicks
    /\ mpx' = mpx_advance(mpx)
    /\ twin' = FmMpx_get_sample(twin).mpx
    /\ seen' = [ticks |-> seen.ticks + 1, live |-> LiveMpx_terms(mpx),
                offline |-> FmMpx_get_sample(twin).terms]
    /\ op' = [name |-> "tick", arg |-> frame, before |-> <<>>]
    /\ UNCHANGED <<gen, clock, obs, word, resampler, ring, atomics, locks, threads,
                 wav, rx>>

NextCompose == \E frame \in ComposeFrames : ComposeTick(frame)

SpecCompose == InitCompose /\ [][NextCompose]_vars

\* C35: on every tick the offline composer and the live composer add the
\* same terms (the pilot term among them, whatever the audio source) and
\* leave the 19 kHz and 38 kHz phase indices equal.
C35_SameTerms ==
    op.name = "tick" =>
        /\ seen.offline = seen.live
        /\ seen.offline.pilot # ABSENT
        /\ twin.phase_19 = mpx.phase_19
        /\ twin.phase_38 = mpx.phase_38


\* a callback is between a push or pop and the store of buffer_fill or the
\* increment of xrun_count that follows it
MidPushPop(t) == t.pc \in {"fill_load", "fill_store", "xrun"}

\* C36: whenever neither callback is in the middle of a push or pop,
\* buffer_fill equals the number of frames in the ring (so the fill fraction
\* reported by meter_snapshot lies in [0, 1]).
C36_FillMatchesRing ==
    (~MidPushPop(threads.capture) /\ ~MidPushPop(threads.output)) =>
        atomics.buffer_fill = u32(Len(ring))


(***************************************************************************)
(* The mutexes of the engine (audio_io.rs:684-790, 816-989): `shared`      *)
(* around the LiveMpx, scope, spectrum, spectrum_peak and spectrum_avg.    *)
(* Here threads maps each thread to its position: pc is idle, wait (blocked *)
(* in Mutex::lock on k), hold (running with the guard of k just taken),    *)
(* run or return; left counts the frames the callback has still to handle; *)
(* fft is fft_pos; calls counts the output callbacks.  locks maps each     *)
(* mutex to the set of threads holding a guard of it.  Two threads call    *)
(* setters, one calls meter_snapshot; sample values are left out.  The     *)
(* engine has run for a while: the FFT buffer lacks one sample.            *)
(***************************************************************************)
MaxLockCalls == 2

FFT_LEN == 1024

LockNames == {"shared", "scope", "spectrum", "spectrum_peak", "spectrum_avg"}

Setters == {"setter1", "setter2"}

Meters == {"meter1"}

LockThreads == {"output", "capture"} \cup Setters \cup Meters

LockFrames == 1..2

\* audio_io.rs:821-824: the mutexes meter_snapshot takes, in order
meter_plan == <<"scope", "spectrum", "spectrum_peak", "spectrum_avg">>

\* audio_io.rs:754-775: the mutexes the output callback takes when the FFT
\* buffer is full, in order
output_fft_plan == <<"spectrum", "spectrum_peak", "spectrum_avg">>

\* the rank of mutex k in a plan
RankIn(plan, k) == CHOOSE i \in 1..Len(plan) : plan[i] = k

\* a guard that lives on to the end of the call
drops_nothing(l, t, k) == l

\* the guard of k taken by thread t is dropped at the end of its statement
\* or block (audio_io.rs:821-824, 754-775, 782-789)
drops(l, t, k) == [l EXCEPT ![k] = @ \ {t}]

\* the call of thread t ends: every guard it still has is dropped
release_all(l, t) == [k \in DOMAIN l |-> l[k] \ {t}]

LockThread0 == [pc |-> "idle", k |-> "none", left |-> 0, fft |-> 0, calls |-> 0]

InitLocks ==
    /\ gen = RdsGenerator_new
    /\ clock = Clock0
    /\ op = NoCall
    /\ obs = Obs0
    /\ word = 0
    /\ resampler = OutputResampler_new(INTERNAL_SAMPLE_RATE, OUTPUT_SAMPLE_RATE)
    /\ mpx = LiveMpx_new
    /\ ring = <<>>
    /\ atomics = [xrun_count |-> u32(0), buffer_fill |-> u32(0)]
    /\ locks = [k \in LockNames |-> {}]
    /\ threads = [t \in LockThreads |->
                     IF t = "output" THEN [LockThread0 EXCEPT !.fft = FFT_LEN - 1]
                     ELSE LockThread0]
    /\ seen = Seen0
    /\ wav = Wav0
    /\ twin = Twin0
    /\ rx = Rx0

LkUnchanged == UNCHANGED <<gen, clock, obs, word, resampler, mpx, ring, atomics, seen,
                           wav, twin, rx>>

\* thread t blocks in k.lock()
LkWait(t, k) == [threads EXCEPT ![t].pc = "wait", ![t].k = k]

\* Mutex::lock returns in thread t: the mutex it waits for is free
LkAcquire(t) ==
    /\ threads[t].pc = "wait"
    /\ locks[threads[t].k] = {}
    /\ locks' = [locks EXCEPT ![threads[t].k] = {t}]
    /\ threads' = [threads EXCEPT ![t].pc = "hold"]
    /\ op' = [name |-> "lock", arg |-> t, before |-> threads[t].k]
    /\ LkUnchanged

\* audio_io.rs:684-685: the output stream calls the callback with n frames
LkOutputEnter(n) ==
    /\ threads["output"].pc = "idle"
    /\ threads["output"].calls < MaxLockCalls
    /\ threads' = [LkWait("output", "shared") EXCEPT !["output"].left = n,
                                                     !["output"].calls = @ + 1]
    /\ op' = [name |-> "output callback", arg |-> n, before |-> <<>>]
    /\ UNCHANGED locks
    /\ LkUnchanged

\* audio_io.rs:688-715, 776: one frame is produced under `shared`; when the
\* FFT buffer is full the spectrum mutexes are taken next
LkOutputSample ==
    /\ threads["output"].pc = "hold"
    /\ threads["output"].k = "shared"
    /\ threads["output"].left > 0
    /\ threads' = IF threads["output"].fft + 1 >= FFT_LEN
                  THEN [LkWait("output", output_fft_plan[1]) EXCEPT
                           !["output"].left = @ - 1, !["output"].fft = 0]
                  ELSE [threads EXCEPT !["output"].left = @ - 1, !["output"].fft = @ + 1]
    /\ op' = [name |-> "sample", arg |-> "output", before |-> threads["output"].fft]
    /\ UNCHANGED locks
    /\ LkUnchanged

\* audio_io.rs:754-775: a spectrum vector is written and its guard dropped
LkOutputSpectrum ==
    /\ threads["output"].pc = "hold"
    /\ threads["output"].k \in {"spectrum", "spectrum_peak", "spectrum_avg"}
    /\ locks' = drops(locks, "output", threads["output"].k)
    /\ threads' = IF RankIn(output_fft_plan, threads["output"].k) < Len(output_fft_plan)
                  THEN LkWait("output",
                              output_fft_plan[RankIn(output_fft_plan,
                                                     threads["output"].k) + 1])
                  ELSE [threads EXCEPT !["output"].k = "shared"]
    /\ op' = [name |-> "write", arg |-> "output", before |-> threads["output"].k]
    /\ LkUnchanged

\* audio_io.rs:778-782: the frames are done; the scope mutex is taken
LkOutputScopeLock ==
    /\ threads["output"].pc = "hold"
    /\ threads["output"].k = "shared"
    /\ threads["output"].left = 0
    /\ threads' = LkWait("output", "scope")
    /\ op' = [name |-> "scope", arg |-> "output", before |-> <<>>]
    /\ UNCHANGED locks
    /\ LkUnchanged

\* audio_io.rs:783-789: the scope buffer is written and its guard dropped
LkOutputScope ==
    /\ threads["output"].pc = "hold"
    /\ threads["output"].k = "scope"
    /\ locks' = drops(locks, "output", "scope")
    /\ threads' = [threads EXCEPT !["output"].pc = "return"]
    /\ op' = [name |-> "write", arg |-> "output", before |-> "scope"]
    /\ LkUnchanged

\* audio_io.rs:601-608: the capture callback pushes its frames; it takes no
\* mutex
LkCaptureEnter(n) ==
    /\ threads["capture"].pc = "idle"
    /\ threads' = [threads EXCEPT !["capture"].pc = "run", !["capture"].left = n]
    /\ op' = [name |-> "input callback", arg |-> n, before |-> <<>>]
    /\ UNCHANGED locks
    /\ LkUnchanged

LkCapturePush ==
    /\ threads["capture"].pc = "run"
    /\ threads["capture"].left > 0
    /\ threads' = [threads EXCEPT !["capture"].left = @ - 1,
                                  !["capture"].pc = IF threads["capture"].left = 1
                                                    THEN "idle" ELSE "run"]
    /\ op' = [name |-> "push", arg |-> "capture", before |-> <<>>]
    /\ UNCHANGED locks
    /\ LkUnchanged

\* the call of thread t returns (audio_io.rs:790 for the output callback,
\* whose guard of `shared` is dropped here)
LkReturn(t) ==
    /\ threads[t].pc = "return"
    /\ locks' = release_all(locks, t)
    /\ threads' = [threads EXCEPT ![t].pc = "idle", ![t].k = "none"]
    /\ op' = [name |-> "return", arg |-> t, before |-> <<>>]
    /\ LkUnchanged

\* AudioEngine::update_* (audio_io.rs:841-989): self.shared.lock()
LkSetterCall(t) ==
    /\ threads[t].pc = "idle"
    /\ threads' = LkWait(t, "shared")
    /\ op' = [name |-> "update", arg |-> t, before |-> <<>>]
    /\ UNCHANGED locks
    /\ LkUnchanged

\* the setter of LiveMpx runs under the guard
LkSet(t) ==
    /\ threads[t].pc = "hold"
    /\ threads' = [threads EXCEPT ![t].pc = "return"]
    /\ op' = [name |-> "set", arg |-> t, before |-> <<>>]
    /\ UNCHANGED locks
    /\ LkUnchanged

\* AudioEngine::meter_snapshot (audio_io.rs:816-821)
LkMeterCall(t) ==
    /\ threads[t].pc = "idle"
    /\ threads' = LkWait(t, meter_plan[1])
    /\ op' = [name |-> "meter_snapshot", arg |-> t, before |-> <<>>]
    /\ UNCHANGED locks
    /\ LkUnchanged

\* audio_io.rs:821-824: the buffer is copied and the guard dropped at the
\* end of the statement
LkMeterCopy(t) ==
    /\ threads[t].pc = "hold"
    /\ locks' = drops(locks, t, threads[t].k)
    /\ threads' = IF RankIn(meter_plan, threads[t].k) < Len(meter_plan)
                  THEN LkWait(t, meter_plan[RankIn(meter_plan, threads[t].k) + 1])
                  ELSE [threads EXCEPT ![t].pc = "return"]
    /\ op' = [name |-> "copy", arg |-> t, before |-> threads[t].k]
    /\ LkUnchanged

\* the steps of thread t other than the start of a call
LkStep(t) ==
    \/ LkAcquire(t)
    \/ LkReturn(t)
    \/ t = "output" /\ (LkOutputSample \/ LkOutputSpectrum \/ LkOutputScopeLock
                           \/ LkOutputScope)
    \/ t = "capture" /\ LkCapturePush
    \/ t \in Setters /\ LkSet(t)
    \/ t \in Meters /\ LkMeterCopy(t)

NextLocks ==
    \/ \E n \in LockFrames : LkOutputEnter(n)
    \/ LkCaptureEnter(1)
    \/ \E t \in Setters : LkSetterCall(t)
    \/ \E t \in Meters : LkMeterCall(t)
    \/ \E t \in LockThreads : LkStep(t)

SpecLocks == InitLocks /\ [][NextLocks]_vars

\* a thread that has started a call goes on, and a thread blocked in
\* Mutex::lock gets the mutex if it is free again and again
SpecLocksLive ==
    /\ SpecLocks
    /\ \A t \in LockThreads : WF_vars(LkStep(t))
    /\ \A t \in LockThreads \ {"capture"} : SF_vars(LkAcquire(t))

\* thread t is blocked: the mutex it waits for is held
Blocked(t) == threads[t].pc = "wait" /\ locks[threads[t].k] # {}

\* the threads of S wait for mutexes held within S
WaitCycle(S) == \A t \in S : Blocked(t) /\ locks[threads[t].k] \subseteq S

MaxMidSets == 1

MidSizes == {(BITS_PER_GROUP * SAMPLES_PER_BIT) \div 3,
             (BITS_PER_GROUP * SAMPLES_PER_BIT) \div 3 + 1}

MidCalls ==
    {[name |-> "set_pi", arg |-> <<4660>>],
     [name |-> "set_ps", arg |-> <<TextOf(PS_LENGTH, 1)>>],
     [name |-> "set_rt", arg |-> <<TextOf(5, 1)>>],
     [name |-> "set_pty", arg |-> <<10>>],
     [name |-> "set_tp", arg |-> <<TRUE>>],
     [name |-> "set_af_list_mhz", arg |-> <<ExampleAfList>>],
     [name |-> "set_group_mix", arg |-> <<1, 1, 1>>],
     [name |-> "set_ct_enabled", arg |-> <<FALSE>>]}

\* the setter call c made on the generator g
mid_apply(g, c) ==
    CASE c.name = "set_pi" -> set_pi(g, c.arg[1])
      [] c.name = "set_ps" -> set_ps(g, c.arg[1])
      [] c.name = "set_rt" -> set_rt(g, c.arg[1])
      [] c.name = "set_pty" -> set_pty(g, c.arg[1])
      [] c.name = "set_tp" -> set_tp(g, c.arg[1])
      [] c.name = "set_af_list_mhz" -> set_af_list_mhz(g, c.arg[1])
      [] c.name = "set_group_mix" -> set_group_mix(g, c.arg[1], c.arg[2], c.arg[3])
      [] c.name = "set_ct_enabled" -> set_ct_enabled(g, c.arg[1])

MidSet(c) ==
    /\ rx.sets < MaxMidSets
    /\ gen' = mid_apply(gen, c)
    /\ rx' = [rx EXCEPT !.sets = @ + 1]
    /\ op' = [name |-> "set", arg |-> c, before |-> gen.bit_pos]
    /\ UNCHANGED <<clock, obs, word, audio, wav, twin>>

NextMid ==
    \/ \E c \in MidCalls : MidSet(c)
    \/ \E n \in MidSizes : GetRdsSamples(n)

SpecMid == Init /\ [][NextMid]_vars

\* C38: a setter call leaves bit_buffer and bit_pos as they are; at every
\* moment the bit buffer is the encoding (information bits and check words)
\* of the blocks computed when the group in progress was generated; and a
\* group generated after the call is built from the parameters as set
\* (block A is the PI set last).
C38_GroupInProgress ==
    /\ [](obs.n_groups > 0 => gen.bit_buffer = encode_group(obs.last))
    /\ [][op'.name = "set" =>
             /\ gen'.bit_buffer = gen.bit_buffer
             /\ gen'.bit_pos = gen.bit_pos]_vars
    /\ [][GroupEmitted => obs'.last[1] = gen.params.pi]_vars

\* set_pi was called with a third of the group sent: the group in progress
\* still carries the old PI in its bit buffer
C38_Witness ==
    /\ op.name = "set"
    /\ op.arg.name = "set_pi"
    /\ gen.bit_pos > 0
    /\ gen.bit_pos < BITS_PER_GROUP
    /\ obs.last[1] # gen.params.pi
    /\ gen.bit_buffer = encode_group(obs.last)

(***************************************************************************)
(* The clock-time group with the clock-time flag cleared.  The flag, the   *)
(* periodic interval and the group mix are set in any order between the    *)
(* groups, and the minute may change.                                      *)
(***************************************************************************)
MaxOffGroups == 4

OffIntervals == 0..2

SetCtInterval(G) ==
    /\ gen' = set_ct_interval_groups(gen, G)
    /\ obs' = [obs EXCEPT !.kinds = <<>>]
    /\ op' = [name |-> "set_ct_interval_groups", arg |-> G,
              before |-> <<gen.ct_interval_groups, gen.ct_counter>>]
    /\ UNCHANGED <<clock, word, audio, wav, twin, rx>>

NextOff ==
    \/ \E b \in BOOLEAN : SetCtEnabled(b)
    \/ \E G \in OffIntervals : SetCtInterval(G)
    \/ \E mix \in AbMixes : SetGroupMix(mix)
    \/ EmitGroup(MaxOffGroups)
    \/ ClockTick

SpecOff == Init /\ [][NextOff]_vars

\* a group that a receiver decodes as 4A: type code 4, version A in block B
Is4A(blocks) == blocks # <<>> /\ Shr(blocks[2], 11) = 8

\* C39: a group generated while ct_enabled is false is never a 4A clock-time
\* group, whatever the periodic interval and the 4A count of the group mix
\* are.
C39_NoCtWhenDisabled ==
    [][(GroupEmitted /\ ~gen.params.ct_enabled) => ~Is4A(obs'.last)]_vars

====
